---- MODULE Spec2Model ----
(***************************************************************************)
(* Model of the procedural remapper (RemapperNode) and of the store it     *)
(* talks to (ProceduralStoreProvider).                                     *)
(*                                                                         *)
(* Numbers.  The code computes in IEEE doubles; the model computes in      *)
(* exact rationals, a record [n |-> numerator, d |-> denominator > 0] in   *)
(* lowest terms.  Rectangles always have w > 0 and h > 0, so no division   *)
(* by zero (Infinity / NaN) arises.                                        *)
(*                                                                         *)
(* Absent values.  A JavaScript `undefined` string is "", an `undefined`   *)
(* boolean is FALSE (both are falsy exactly like the values they stand     *)
(* for), an absent strategy is a record with present = FALSE, an absent    *)
(* `children` array is hasChildren = FALSE, and an absent registry entry   *)
(* is a key outside the DOMAIN of the registry.                            *)
(***************************************************************************)
EXTENDS Integers, Sequences, FiniteSets, TLC

VARIABLES
    templateRegistry,     \* store: NodeID -> TemplateMetadata
    resolvedRegistry,     \* store: NodeID -> HandleID -> MappingContext
    payloadRegistry,      \* store: NodeID -> HandleID -> TransformedPayload
    userCredits,          \* store: credit balance
    edges,                \* graph: the edges arriving at the remapper
    instanceCount,        \* node data: number of remap instances
    confirmations,        \* node: index -> confirmed
    previews,             \* node: index -> locally synthesized preview url
    isGeneratingPreview,  \* node: index -> synthesis in flight
    instances,            \* node: the memoized result of the last pass
    draftRequests,        \* node: index -> generateDraft calls awaiting the API
    pending,              \* node: state changes since the last render
    failedDrafts,         \* history: index -> generateDraft calls ended without an image
    bleedPercent,         \* build: the value of MAX_BOUNDARY_VIOLATION_PERCENT
    refreshEvents,        \* window: handles of the DRAFT_REFRESH events of the last render
    psdRegistry,          \* store: NodeID -> Psd
    analysisRegistry,     \* store: NodeID -> HandleID -> LayoutStrategy
    globalVersion,        \* store: refresh counter
    isPro                 \* store: pro flag

vars == <<templateRegistry, resolvedRegistry, payloadRegistry, userCredits,
          edges, instanceCount, confirmations, previews, isGeneratingPreview,
          instances, draftRequests, pending, failedDrafts, bleedPercent, refreshEvents,
                   psdRegistry, analysisRegistry, globalVersion, isPro>>

-----------------------------------------------------------------------------
(* Exact rational arithmetic.                                              *)

Abs(a) == IF a < 0 THEN -a ELSE a

RECURSIVE GCD(_, _)
GCD(a, b) == IF b = 0 THEN a ELSE GCD(b, a % b)

\* The rational n/d (d # 0) in lowest terms with a positive denominator.
Rat(n, d) ==
    LET s == IF d < 0 THEN -1 ELSE 1
        g == GCD(Abs(n), Abs(d))
    IN  [n |-> (s * n) \div g, d |-> (s * d) \div g]

R(k) == [n |-> k, d |-> 1]

RAdd(a, b) == Rat(a.n * b.d + b.n * a.d, a.d * b.d)
RSub(a, b) == Rat(a.n * b.d - b.n * a.d, a.d * b.d)
RMul(a, b) == Rat(a.n * b.n, a.d * b.d)
RDiv(a, b) == Rat(a.n * b.d, a.d * b.n)
RLt(a, b) == a.n * b.d < b.n * a.d
RLe(a, b) == a.n * b.d <= b.n * a.d
RMin(a, b) == IF RLe(a, b) THEN a ELSE b
RMax(a, b) == IF RLe(a, b) THEN b ELSE a

Rect(x, y, w, h) == [x |-> R(x), y |-> R(y), w |-> R(w), h |-> R(h)]

-----------------------------------------------------------------------------
(* Scale and anchor (step 1 of the pass).                                  *)

NoStrategy ==
    [present |-> FALSE, method |-> "", suggestedScale |-> R(1), anchor |-> "",
     generativePrompt |-> "", isExplicitIntent |-> FALSE, overrides |-> <<>>]

\* Faulty variant of MinFitScale: fits the larger ratio.
MaxFitScale(sourceRect, targetRect) ==
    RMax(RDiv(targetRect.w, sourceRect.w), RDiv(targetRect.h, sourceRect.h))

\* let scale = Math.min(ratioX, ratioY)
MinFitScale(sourceRect, targetRect) ==
    LET ratioX == RDiv(targetRect.w, sourceRect.w)
        ratioY == RDiv(targetRect.h, sourceRect.h)
    IN  RMin(ratioX, ratioY)

\* Faulty variant of PassScale: the suggested scale of a strategy is ignored.
PassScaleIgnoresStrategy(strategy, sourceRect, targetRect) ==
    MinFitScale(sourceRect, targetRect)

\* scale after `if (strategy) { scale = strategy.suggestedScale; ... }`
PassScale(strategy, sourceRect, targetRect) ==
    IF strategy.present THEN strategy.suggestedScale
    ELSE MinFitScale(sourceRect, targetRect)

\* anchorX: both branches centre the scaled width in the target.
AnchorX(strategy, sourceRect, targetRect, scale) ==
    LET scaledW == RMul(sourceRect.w, scale)
    IN  RAdd(targetRect.x, RDiv(RSub(targetRect.w, scaledW), R(2)))

\* Faulty variant of AnchorY: BOTTOM is centred like any other value.
AnchorYBottomCentres(strategy, sourceRect, targetRect, scale) ==
    LET scaledH == RMul(sourceRect.h, scale)
    IN  IF strategy.present /\ strategy.anchor = "TOP" THEN targetRect.y
        ELSE RAdd(targetRect.y, RDiv(RSub(targetRect.h, scaledH), R(2)))

\* Faulty variant of AnchorY: TOP is centred like any other value.
AnchorYIgnoresTop(strategy, sourceRect, targetRect, scale) ==
    LET scaledH == RMul(sourceRect.h, scale)
    IN  IF strategy.present /\ strategy.anchor = "BOTTOM"
        THEN RAdd(targetRect.y, RSub(targetRect.h, scaledH))
        ELSE RAdd(targetRect.y, RDiv(RSub(targetRect.h, scaledH), R(2)))

\* Faulty variant of AnchorY: without a strategy anchorY keeps its initial
\* value targetRect.y.
AnchorYTopWithoutStrategy(strategy, sourceRect, targetRect, scale) ==
    LET scaledH == RMul(sourceRect.h, scale)
    IN  IF ~strategy.present \/ strategy.anchor = "TOP" THEN targetRect.y
        ELSE IF strategy.anchor = "BOTTOM"
             THEN RAdd(targetRect.y, RSub(targetRect.h, scaledH))
        ELSE RAdd(targetRect.y, RDiv(RSub(targetRect.h, scaledH), R(2)))

\* anchorY: TOP / BOTTOM / otherwise centre; centre without a strategy.
AnchorY(strategy, sourceRect, targetRect, scale) ==
    LET scaledH == RMul(sourceRect.h, scale)
    IN  IF strategy.present /\ strategy.anchor = "TOP" THEN targetRect.y
        ELSE IF strategy.present /\ strategy.anchor = "BOTTOM"
             THEN RAdd(targetRect.y, RSub(targetRect.h, scaledH))
        ELSE RAdd(targetRect.y, RDiv(RSub(targetRect.h, scaledH), R(2)))

\* Everything transformLayers closes over.
PassEnv(strategy, sourceRect, targetRect, bleed) ==
    LET scale == PassScale(strategy, sourceRect, targetRect)
    IN  [strategy |-> strategy, sourceRect |-> sourceRect, targetRect |-> targetRect,
         scale |-> scale,
         anchorX |-> AnchorX(strategy, sourceRect, targetRect, scale),
         anchorY |-> AnchorY(strategy, sourceRect, targetRect, scale),
         bleed |-> bleed]

-----------------------------------------------------------------------------
(* Recursive layer transform (steps 2 and 3 of the pass).                  *)

\* Faulty variant of FindOverride: a layer that no override names takes the
\* first override of the list.
FindOverrideDefaultsToFirst(strategy, layerId) ==
    LET hits == {k \in 1..Len(strategy.overrides) : strategy.overrides[k].layerId = layerId}
    IN  IF ~strategy.present \/ strategy.overrides = <<>> THEN 0
        ELSE IF hits = {} THEN 1
        ELSE CHOOSE k \in hits : \A j \in hits : k <= j

\* strategy?.overrides?.find(o => o.layerId === layer.id): the index of the
\* first override naming the layer, 0 when there is none.
FindOverride(strategy, layerId) ==
    LET hits == {k \in 1..Len(strategy.overrides) : strategy.overrides[k].layerId = layerId}
    IN  IF ~strategy.present \/ hits = {} THEN 0
        ELSE CHOOSE k \in hits : \A j \in hits : k <= j

\* 1. Geometric baseline of a layer.
GeomX(layer, env) ==
    LET relX == RDiv(RSub(layer.coords.x, env.sourceRect.x), env.sourceRect.w)
    IN  RAdd(env.anchorX, RMul(relX, RMul(env.sourceRect.w, env.scale)))

GeomY(layer, env) ==
    LET relY == RDiv(RSub(layer.coords.y, env.sourceRect.y), env.sourceRect.h)
    IN  RAdd(env.anchorY, RMul(relY, RMul(env.sourceRect.h, env.scale)))

\* Faulty variant of ClampY: only the upper bound is enforced.
ClampYUpperOnly(finalY, targetRect, bleed) ==
    RMin(finalY, RAdd(RAdd(targetRect.y, targetRect.h), RMul(targetRect.h, bleed)))

\* 4. finalY = Math.max(minY, Math.min(finalY, maxY))
ClampY(finalY, targetRect, bleed) ==
    LET bleedY == RMul(targetRect.h, bleed)
        minY == RSub(targetRect.y, bleedY)
        maxY == RAdd(RAdd(targetRect.y, targetRect.h), bleedY)
    IN  RMax(minY, RMin(finalY, maxY))

\* Faulty variant of PlaceLayer: an override does not redefine the delta handed to the
\* children.
PlaceLayerKeepsParentDelta(layer, parentDeltaX, parentDeltaY, env) ==
    LET geomX == GeomX(layer, env)
        geomY == GeomY(layer, env)
        k == FindOverride(env.strategy, layer.id)
        override == env.strategy.overrides[k]
        finalX == IF k # 0 THEN RAdd(env.targetRect.x, override.xOffset)
                  ELSE RAdd(geomX, parentDeltaX)
        preY == IF k # 0 THEN RAdd(env.targetRect.y, override.yOffset)
                ELSE RAdd(geomY, parentDeltaY)
        layerScaleX == IF k # 0 THEN RMul(env.scale, override.individualScale) ELSE env.scale
        layerScaleY == IF k # 0 THEN RMul(env.scale, override.individualScale) ELSE env.scale
    IN  [finalX |-> finalX,
         preY |-> preY,
         finalY |-> ClampY(preY, env.targetRect, env.bleed),
         layerScaleX |-> layerScaleX,
         layerScaleY |-> layerScaleY,
         currentDeltaX |-> parentDeltaX,
         currentDeltaY |-> parentDeltaY]

\* Faulty variant of PlaceLayer: the override's individualScale replaces the
\* pass scale.
PlaceLayerReplacesScale(layer, parentDeltaX, parentDeltaY, env) ==
    LET geomX == GeomX(layer, env)
        geomY == GeomY(layer, env)
        k == FindOverride(env.strategy, layer.id)
        override == env.strategy.overrides[k]
        finalX == IF k # 0 THEN RAdd(env.targetRect.x, override.xOffset)
                  ELSE RAdd(geomX, parentDeltaX)
        preY == IF k # 0 THEN RAdd(env.targetRect.y, override.yOffset)
                ELSE RAdd(geomY, parentDeltaY)
        layerScaleX == IF k # 0 THEN override.individualScale ELSE env.scale
        layerScaleY == IF k # 0 THEN override.individualScale ELSE env.scale
    IN  [finalX |-> finalX,
         preY |-> preY,
         finalY |-> ClampY(preY, env.targetRect, env.bleed),
         layerScaleX |-> layerScaleX,
         layerScaleY |-> layerScaleY,
         currentDeltaX |-> IF k # 0 THEN RSub(finalX, geomX) ELSE parentDeltaX,
         currentDeltaY |-> IF k # 0 THEN RSub(preY, geomY) ELSE parentDeltaY]

\* The body of layers.map(layer => ...) without the recursion into the
\* children: the layer's placement, scale and the delta handed to its children.
\* preY is the value of finalY just before the clamp (a history value: the
\* code overwrites it).
PlaceLayer(layer, parentDeltaX, parentDeltaY, env) ==
    LET geomX == GeomX(layer, env)
        geomY == GeomY(layer, env)
        k == FindOverride(env.strategy, layer.id)
        override == env.strategy.overrides[k]
        finalX == IF k # 0 THEN RAdd(env.targetRect.x, override.xOffset)
                  ELSE RAdd(geomX, parentDeltaX)
        preY == IF k # 0 THEN RAdd(env.targetRect.y, override.yOffset)
                ELSE RAdd(geomY, parentDeltaY)
        layerScaleX == IF k # 0 THEN RMul(env.scale, override.individualScale) ELSE env.scale
        layerScaleY == IF k # 0 THEN RMul(env.scale, override.individualScale) ELSE env.scale
    IN  [finalX |-> finalX,
         preY |-> preY,
         finalY |-> ClampY(preY, env.targetRect, env.bleed),
         layerScaleX |-> layerScaleX,
         layerScaleY |-> layerScaleY,
         currentDeltaX |-> IF k # 0 THEN RSub(finalX, geomX) ELSE parentDeltaX,
         currentDeltaY |-> IF k # 0 THEN RSub(preY, geomY) ELSE parentDeltaY]

\* Faulty variant of traceLayers: a group with an empty children array comes
\* out without children.
RECURSIVE traceLayersDropsEmptyGroups(_, _, _, _)
traceLayersDropsEmptyGroups(layers, parentDeltaX, parentDeltaY, env) ==
    [k \in 1..Len(layers) |->
        LET layer == layers[k]
            p == PlaceLayer(layer, parentDeltaX, parentDeltaY, env)
        IN  [id |-> layer.id,
             type |-> layer.type,
             coords |-> [x |-> p.finalX, y |-> p.finalY,
                         w |-> RMul(layer.coords.w, p.layerScaleX),
                         h |-> RMul(layer.coords.h, p.layerScaleY)],
             transform |-> [scaleX |-> p.layerScaleX, scaleY |-> p.layerScaleY,
                            offsetX |-> p.finalX, offsetY |-> p.finalY],
             hasChildren |-> layer.hasChildren /\ layer.children # <<>>,
             children |-> IF layer.hasChildren
                          THEN traceLayersDropsEmptyGroups(layer.children, p.currentDeltaX,
                                                           p.currentDeltaY, env)
                          ELSE <<>>,
             generativePrompt |-> "",
             preY |-> p.preY]]

\* transformLayers, each output node also carrying preY.
RECURSIVE traceLayers(_, _, _, _)
traceLayers(layers, parentDeltaX, parentDeltaY, env) ==
    [k \in 1..Len(layers) |->
        LET layer == layers[k]
            p == PlaceLayer(layer, parentDeltaX, parentDeltaY, env)
        IN  [id |-> layer.id,
             type |-> layer.type,
             coords |-> [x |-> p.finalX, y |-> p.finalY,
                         w |-> RMul(layer.coords.w, p.layerScaleX),
                         h |-> RMul(layer.coords.h, p.layerScaleY)],
             transform |-> [scaleX |-> p.layerScaleX, scaleY |-> p.layerScaleY,
                            offsetX |-> p.finalX, offsetY |-> p.finalY],
             hasChildren |-> layer.hasChildren,
             children |-> IF layer.hasChildren
                          THEN traceLayers(layer.children, p.currentDeltaX, p.currentDeltaY, env)
                          ELSE <<>>,
             generativePrompt |-> "",
             preY |-> p.preY]]

\* Drops the history value preY at every depth.
RECURSIVE StripTrace(_)
StripTrace(traced) ==
    [k \in 1..Len(traced) |->
        [id |-> traced[k].id, type |-> traced[k].type, coords |-> traced[k].coords,
         transform |-> traced[k].transform, hasChildren |-> traced[k].hasChildren,
         children |-> StripTrace(traced[k].children),
         generativePrompt |-> traced[k].generativePrompt]]

transformLayers(layers, parentDeltaX, parentDeltaY, env) ==
    StripTrace(traceLayers(layers, parentDeltaX, parentDeltaY, env))

-----------------------------------------------------------------------------
(* Generative gate, injection and payload (steps 4 and 5 of the pass).     *)

\* const scaleThreshold = 2.0
scaleThreshold == 2

GateOutcome(requiresGeneration, status, generativePromptUsed) ==
    [requiresGeneration |-> requiresGeneration, status |-> status,
     generativePromptUsed |-> generativePromptUsed]

\* Faulty variant of Gate: the stretch test is scale >= scaleThreshold.
GateInclusiveThreshold(strategy, isConfirmed, credits, scale) ==
    IF strategy.present /\ strategy.generativePrompt # ""
    THEN IF isConfirmed /\ credits > 0
         THEN GateOutcome(TRUE, "success", strategy.generativePrompt)
         ELSE IF strategy.isExplicitIntent \/ RLe(R(scaleThreshold), scale)
         THEN GateOutcome(FALSE, "awaiting_confirmation", "")
         ELSE GateOutcome(FALSE, "success", "")
    ELSE GateOutcome(FALSE, "success", "")

\* Faulty variant of Gate: the gate is entered for any strategy, prompt or not.
GateIgnoresEmptyPrompt(strategy, isConfirmed, credits, scale) ==
    IF strategy.present
    THEN IF isConfirmed /\ credits > 0
         THEN GateOutcome(TRUE, "success", strategy.generativePrompt)
         ELSE IF strategy.isExplicitIntent \/ RLt(R(scaleThreshold), scale)
         THEN GateOutcome(FALSE, "awaiting_confirmation", "")
         ELSE GateOutcome(FALSE, "success", "")
    ELSE GateOutcome(FALSE, "success", "")

\* Faulty variant of Gate: every unconfirmed prompt awaits confirmation.
GateAlwaysAwaits(strategy, isConfirmed, credits, scale) ==
    IF strategy.present /\ strategy.generativePrompt # ""
    THEN IF isConfirmed /\ credits > 0
         THEN GateOutcome(TRUE, "success", strategy.generativePrompt)
         ELSE GateOutcome(FALSE, "awaiting_confirmation", "")
    ELSE GateOutcome(FALSE, "success", "")

\* Faulty variant of Gate: a confirmation opens the gate whatever the balance.
GateIgnoresCredits(strategy, isConfirmed, credits, scale) ==
    LET isExplicit == strategy.isExplicitIntent
        isHighStretch == RLt(R(scaleThreshold), scale)
    IN  IF strategy.present /\ strategy.generativePrompt # ""
        THEN IF isConfirmed
             THEN GateOutcome(TRUE, "success", strategy.generativePrompt)
             ELSE IF isExplicit \/ isHighStretch
             THEN GateOutcome(FALSE, "awaiting_confirmation", "")
             ELSE GateOutcome(FALSE, "success", "")
        ELSE GateOutcome(FALSE, "success", "")

\* The gate: requiresGeneration, status and generativePromptUsed.
Gate(strategy, isConfirmed, credits, scale) ==
    LET isExplicit == strategy.isExplicitIntent
        isHighStretch == RLt(R(scaleThreshold), scale)
        hasCredits == credits > 0
    IN  IF strategy.present /\ strategy.generativePrompt # ""
        THEN IF isConfirmed /\ hasCredits
             THEN GateOutcome(TRUE, "success", strategy.generativePrompt)
             ELSE IF isExplicit \/ isHighStretch
             THEN GateOutcome(FALSE, "awaiting_confirmation", "")
             ELSE GateOutcome(FALSE, "success", "")
        ELSE GateOutcome(FALSE, "success", "")

\* The synthetic layer.  Its display name is the first 20 characters of the
\* prompt between a fixed prefix and "..."; every prompt of the model is
\* shorter than 20 characters, so the name carries the whole prompt.
genLayer(sourceName, generativePromptUsed, targetRect) ==
    [id |-> "gen-layer-" \o sourceName,
     type |-> "generative",
     coords |-> [x |-> targetRect.x, y |-> targetRect.y,
                 w |-> targetRect.w, h |-> targetRect.h],
     transform |-> [scaleX |-> R(1), scaleY |-> R(1),
                    offsetX |-> targetRect.x, offsetY |-> targetRect.y],
     hasChildren |-> FALSE,
     children |-> <<>>,
     generativePrompt |-> generativePromptUsed]

\* Faulty variant of InjectGenerative: the synthetic layer is pushed at the end.
InjectGenerativeAppends(transformedLayers, gate, sourceName, targetRect) ==
    IF gate.requiresGeneration /\ gate.generativePromptUsed # ""
    THEN transformedLayers \o <<genLayer(sourceName, gate.generativePromptUsed, targetRect)>>
    ELSE transformedLayers

\* if (requiresGeneration && generativePromptUsed) transformedLayers.unshift(genLayer)
InjectGenerative(transformedLayers, gate, sourceName, targetRect) ==
    IF gate.requiresGeneration /\ gate.generativePromptUsed # ""
    THEN <<genLayer(sourceName, gate.generativePromptUsed, targetRect)>> \o transformedLayers
    ELSE transformedLayers

\* Faulty variant of ComputePayload: a local draft is preferred over the
\* preview of the source context.
ComputePayloadPrefersLocal(sourceData, targetData, isConfirmed, credits, localPreview, bleed) ==
    LET sourceRect == sourceData.originalBounds
        targetRect == targetData.bounds
        env == PassEnv(sourceData.aiStrategy, sourceRect, targetRect, bleed)
        transformedLayers == transformLayers(sourceData.layers, R(0), R(0), env)
        gate == Gate(sourceData.aiStrategy, isConfirmed, credits, env.scale)
    IN  [status |-> gate.status,
         sourceNodeId |-> sourceData.nodeId,
         sourceContainer |-> sourceData.name,
         targetContainer |-> targetData.name,
         layers |-> InjectGenerative(transformedLayers, gate, sourceData.name, targetRect),
         scaleFactor |-> env.scale,
         metrics |-> [source |-> [w |-> sourceRect.w, h |-> sourceRect.h],
                      target |-> [w |-> targetRect.w, h |-> targetRect.h]],
         requiresGeneration |-> gate.requiresGeneration,
         previewUrl |-> IF localPreview # "" THEN localPreview
                        ELSE sourceData.previewUrl,
         isConfirmed |-> isConfirmed]

\* `payload = {...}` for a ready source and target.
ComputePayload(sourceData, targetData, isConfirmed, credits, localPreview, bleed) ==
    LET sourceRect == sourceData.originalBounds
        targetRect == targetData.bounds
        env == PassEnv(sourceData.aiStrategy, sourceRect, targetRect, bleed)
        transformedLayers == transformLayers(sourceData.layers, R(0), R(0), env)
        gate == Gate(sourceData.aiStrategy, isConfirmed, credits, env.scale)
    IN  [status |-> gate.status,
         sourceNodeId |-> sourceData.nodeId,
         sourceContainer |-> sourceData.name,
         targetContainer |-> targetData.name,
         layers |-> InjectGenerative(transformedLayers, gate, sourceData.name, targetRect),
         scaleFactor |-> env.scale,
         metrics |-> [source |-> [w |-> sourceRect.w, h |-> sourceRect.h],
                      target |-> [w |-> targetRect.w, h |-> targetRect.h]],
         requiresGeneration |-> gate.requiresGeneration,
         previewUrl |-> IF sourceData.previewUrl # "" THEN sourceData.previewUrl
                        ELSE localPreview,
         isConfirmed |-> isConfirmed]

-----------------------------------------------------------------------------
(* Handle strings.  A handle or container name is the string `prefix`      *)
(* followed by `rest`, where prefix is "slot-bounds-", "target-out-" or "" *)
(* and rest starts with neither prefix: two such records are equal exactly *)
(* when the strings are.                                                   *)

Str(prefix, rest) == [prefix |-> prefix, rest |-> rest]

EmptyStr == Str("", "")

\* handle.startsWith('slot-bounds-')
StartsWithSlotBounds(handle) == handle.prefix = "slot-bounds-"

\* handle.replace('slot-bounds-', '') of a handle that starts with it
StripSlotBounds(handle) == Str("", handle.rest)

\* The decimal digit strings of the model and parseInt(_, 10) of them.
DigitStrings == {"0", "1", "2", "3"}

ParseInt(digits) ==
    CASE digits = "0" -> 0
      [] digits = "1" -> 1
      [] digits = "2" -> 2
      [] digits = "3" -> 3

\* handle.match(/^target-out-(\d+)$/)
MatchesTargetOut(handle) ==
    handle.prefix = "target-out-" /\ handle.rest \in DigitStrings

-----------------------------------------------------------------------------
(* Handle resolver (per instance index).                                   *)

id == "remapper"

\* The graph's nodes as far as the pass reads them: it looks for a node of
\* type 'loadPsd'.  The modelled graph holds one.
nodes == {[id |-> "remapper", type |-> "remapper"], [id |-> "psd", type |-> "loadPsd"]}

SourceHandleId(i) == <<"source-in", i>>
TargetHandleId(i) == <<"target-in", i>>

\* edges.find(e => e.target === id && e.targetHandle === handleId): the index
\* of the first such edge, 0 when there is none.  `edges` holds the edges
\* whose target is this node.
FindEdge(es, handleId) ==
    LET hits == {k \in 1..Len(es) : es[k].targetHandle = handleId}
    IN  IF hits = {} THEN 0 ELSE CHOOSE k \in hits : \A j \in hits : k <= j

NotReadySource ==
    [ready |-> FALSE, name |-> "", nodeId |-> "", sourceNodeId |-> "",
     handleId |-> EmptyStr, layers |-> <<>>, originalBounds |-> Rect(0, 0, 1, 1),
     aiStrategy |-> NoStrategy, previewUrl |-> ""]

\* 1. Resolve Source
ResolveSource(i, es, resolved) ==
    LET k == FindEdge(es, SourceHandleId(i))
        sourceEdge == es[k]
        loadPsd == {n \in nodes : n.type = "loadPsd"}
    IN  IF k # 0 /\ sourceEdge.sourceHandle # EmptyStr
           /\ sourceEdge.source \in DOMAIN resolved
           /\ sourceEdge.sourceHandle \in DOMAIN resolved[sourceEdge.source]
        THEN LET context == resolved[sourceEdge.source][sourceEdge.sourceHandle]
             IN  [ready |-> TRUE,
                  name |-> context.container.containerName,
                  nodeId |-> IF loadPsd # {} THEN (CHOOSE n \in loadPsd : TRUE).id
                             ELSE sourceEdge.source,
                  sourceNodeId |-> sourceEdge.source,
                  handleId |-> sourceEdge.sourceHandle,
                  layers |-> context.layers,
                  originalBounds |-> context.container.bounds,
                  aiStrategy |-> context.aiStrategy,
                  previewUrl |-> context.previewUrl]
        ELSE NotReadySource

\* template.containers.find(c => c.name === name): index of the first, or 0.
FindContainer(containers, name) ==
    LET hits == {k \in 1..Len(containers) : containers[k].name = name}
    IN  IF hits = {} THEN 0 ELSE CHOOSE k \in hits : \A j \in hits : k <= j

\* Faulty variant of ResolveContainer: the indexed rule C is tried before the
\* exact-name rule A.
ResolveContainerIndexFirst(containers, handle) ==
    LET a == FindContainer(containers, handle)
        b == IF StartsWithSlotBounds(handle)
             THEN FindContainer(containers, StripSlotBounds(handle)) ELSE 0
        c == IF MatchesTargetOut(handle) /\ ParseInt(handle.rest) < Len(containers)
             THEN ParseInt(handle.rest) + 1 ELSE 0
        d == IF Len(containers) = 1 THEN 1 ELSE 0
    IN  IF c # 0 THEN c
        ELSE IF a # 0 THEN a
        ELSE IF b # 0 THEN b
        ELSE d

\* Strategies A to D: the (1-based) index of the container chosen for a
\* handle, 0 when no strategy matches.
ResolveContainer(containers, handle) ==
    LET a == FindContainer(containers, handle)
        b == IF StartsWithSlotBounds(handle)
             THEN FindContainer(containers, StripSlotBounds(handle)) ELSE 0
        c == IF MatchesTargetOut(handle) /\ ParseInt(handle.rest) < Len(containers)
             THEN ParseInt(handle.rest) + 1 ELSE 0
        d == IF Len(containers) = 1 THEN 1 ELSE 0
    IN  IF a # 0 THEN a
        ELSE IF b # 0 THEN b
        ELSE IF c # 0 THEN c
        ELSE d

NotReadyTarget == [ready |-> FALSE, name |-> EmptyStr, bounds |-> Rect(0, 0, 1, 1)]

\* Faulty variant of ResolveTarget: the exposed name is always the raw name.
ResolveTargetRawName(i, es, templates) ==
    LET k == FindEdge(es, TargetHandleId(i))
        targetEdge == es[k]
    IN  IF k # 0 /\ targetEdge.sourceHandle # EmptyStr
           /\ targetEdge.source \in DOMAIN templates
        THEN LET containers == templates[targetEdge.source].containers
                 c == ResolveContainer(containers, targetEdge.sourceHandle)
                 containerDefinition == containers[c]
             IN  IF c # 0
                 THEN [ready |-> TRUE,
                       name |-> containerDefinition.name,
                       bounds |-> containerDefinition.bounds]
                 ELSE NotReadyTarget
        ELSE NotReadyTarget

\* 2. Resolve Target
ResolveTarget(i, es, templates) ==
    LET k == FindEdge(es, TargetHandleId(i))
        targetEdge == es[k]
    IN  IF k # 0 /\ targetEdge.sourceHandle # EmptyStr
           /\ targetEdge.source \in DOMAIN templates
        THEN LET containers == templates[targetEdge.source].containers
                 c == ResolveContainer(containers, targetEdge.sourceHandle)
                 containerDefinition == containers[c]
             IN  IF c # 0
                 THEN [ready |-> TRUE,
                       name |-> IF containerDefinition.originalName # EmptyStr
                                THEN containerDefinition.originalName
                                ELSE containerDefinition.name,
                       bounds |-> containerDefinition.bounds]
                 ELSE NotReadyTarget
        ELSE NotReadyTarget

NoPayload ==
    [status |-> "none", sourceNodeId |-> "", sourceContainer |-> "",
     targetContainer |-> EmptyStr, layers |-> <<>>, scaleFactor |-> R(0),
     metrics |-> [source |-> [w |-> R(0), h |-> R(0)], target |-> [w |-> R(0), h |-> R(0)]],
     requiresGeneration |-> FALSE, previewUrl |-> "", isConfirmed |-> FALSE]

\* Faulty variant of ComputeInstance: one confirmation approves every instance
\* of the node.
ComputeInstanceSharedConfirmation(i, es, resolved, templates, confirmed, credits, localPreviews, bleed) ==
    LET sourceData == ResolveSource(i, es, resolved)
        targetData == ResolveTarget(i, es, templates)
        isReady == sourceData.ready /\ targetData.ready
        env == PassEnv(sourceData.aiStrategy, sourceData.originalBounds,
                       targetData.bounds, bleed)
    IN  [index |-> i,
         source |-> sourceData,
         target |-> targetData,
         hasPayload |-> isReady,
         payload |-> IF isReady
                     THEN ComputePayload(sourceData, targetData,
                                         \E j \in DOMAIN confirmed : confirmed[j], credits,
                                         localPreviews[i], bleed)
                     ELSE NoPayload,
         strategyUsed |-> isReady /\ sourceData.aiStrategy.present,
         credits |-> credits,
         localPreview |-> localPreviews[i],
         env |-> env,
         trace |-> IF isReady
                   THEN traceLayers(sourceData.layers, R(0), R(0), env)
                   ELSE <<>>]

\* Faulty variant of ComputeInstance: a confirmation counts only while the
\* instance has a preview.
ComputeInstanceConfirmNeedsPreview(i, es, resolved, templates, confirmed, credits, localPreviews, bleed) ==
    LET sourceData == ResolveSource(i, es, resolved)
        targetData == ResolveTarget(i, es, templates)
        isReady == sourceData.ready /\ targetData.ready
        env == PassEnv(sourceData.aiStrategy, sourceData.originalBounds,
                       targetData.bounds, bleed)
    IN  [index |-> i,
         source |-> sourceData,
         target |-> targetData,
         hasPayload |-> isReady,
         payload |-> IF isReady
                     THEN ComputePayload(sourceData, targetData,
                                         confirmed[i] /\ (sourceData.previewUrl # ""
                                                          \/ localPreviews[i] # ""),
                                         credits, localPreviews[i], bleed)
                     ELSE NoPayload,
         strategyUsed |-> isReady /\ sourceData.aiStrategy.present,
         credits |-> credits,
         localPreview |-> localPreviews[i],
         env |-> env,
         trace |-> IF isReady
                   THEN traceLayers(sourceData.layers, R(0), R(0), env)
                   ELSE <<>>]

\* One iteration of the loop over the instance indices.  hasPayload = FALSE is
\* `payload: null`.  credits, env and trace are the history of the pass: the
\* balance it read, the scale and anchors it used, and the transformed tree
\* before the generative layer is prepended, with each layer's pre-clamp y.
ComputeInstance(i, es, resolved, templates, confirmed, credits, localPreviews, bleed) ==
    LET sourceData == ResolveSource(i, es, resolved)
        targetData == ResolveTarget(i, es, templates)
        isReady == sourceData.ready /\ targetData.ready
        env == PassEnv(sourceData.aiStrategy, sourceData.originalBounds,
                       targetData.bounds, bleed)
    IN  [index |-> i,
         source |-> sourceData,
         target |-> targetData,
         hasPayload |-> isReady,
         payload |-> IF isReady
                     THEN ComputePayload(sourceData, targetData, confirmed[i], credits,
                                         localPreviews[i], bleed)
                     ELSE NoPayload,
         strategyUsed |-> isReady /\ sourceData.aiStrategy.present,
         credits |-> credits,
         localPreview |-> localPreviews[i],
         env |-> env,
         trace |-> IF isReady
                   THEN traceLayers(sourceData.layers, R(0), R(0), env)
                   ELSE <<>>]

\* const instances = useMemo(() => {...}): one entry per index 0..instanceCount-1
\* (entry k of the sequence is index k-1).
ComputeInstances(count, es, resolved, templates, confirmed, credits, localPreviews, bleed) ==
    [k \in 1..count |->
        ComputeInstance(k - 1, es, resolved, templates, confirmed, credits,
                        localPreviews, bleed)]

-----------------------------------------------------------------------------
(* Store operations used by the pass.                                      *)

EmptyRecord == [k \in {} |-> 0]

\* { ...prev, [nodeId]: { ...nodeRecord, [handleId]: value } }
PutEntry(prev, nodeId, handleId, value) ==
    LET nodeRecord == IF nodeId \in DOMAIN prev THEN prev[nodeId] ELSE EmptyRecord
    IN  [n \in DOMAIN prev \cup {nodeId} |->
            IF n = nodeId
            THEN [h \in DOMAIN nodeRecord \cup {handleId} |->
                     IF h = handleId THEN value ELSE nodeRecord[h]]
            ELSE prev[n]]

\* Faulty variant of registerPayload: a payload registered again is merged
\* into the stored one, its layers added to those already there.
registerPayloadAccumulates(prev, nodeId, handleId, payload) ==
    IF nodeId \in DOMAIN prev /\ handleId \in DOMAIN prev[nodeId]
    THEN PutEntry(prev, nodeId, handleId,
                  [payload EXCEPT !.layers = prev[nodeId][handleId].layers \o payload.layers])
    ELSE PutEntry(prev, nodeId, handleId, payload)

\* JSON.stringify(a) === JSON.stringify(b).  The text lists the members of an
\* object in the insertion order of its keys; a value whose key order varies
\* between callers carries it in `keys`, every other value is built by one
\* literal and has one order.
JsonEqual(a, b) ==
    IF "keys" \in DOMAIN a /\ "keys" \in DOMAIN b
    THEN /\ a.keys = b.keys
         /\ \A k \in 1..Len(a.keys) : a[a.keys[k]] = b[a.keys[k]]
    ELSE a = b

\* Faulty variant of IsStored: only the identity test is made, and a value
\* built for the call is never the stored object.
IsStoredByIdentity(prev, nodeId, handleId, value) == FALSE

\* `if (current && JSON.stringify(current) === JSON.stringify(value)) return
\* prev`: the setter of a handle-keyed registry keeps the previous state.
IsStored(prev, nodeId, handleId, value) ==
    /\ nodeId \in DOMAIN prev
    /\ handleId \in DOMAIN prev[nodeId]
    /\ JsonEqual(prev[nodeId][handleId], value)

\* registerPayload: the new payload registry.
registerPayload(prev, nodeId, handleId, payload) ==
    IF IsStored(prev, nodeId, handleId, payload)
    THEN prev
    ELSE PutEntry(prev, nodeId, handleId, payload)

\* registerAnalysis: the new analysis registry.
registerAnalysis(prev, nodeId, handleId, strategy) ==
    IF IsStored(prev, nodeId, handleId, strategy)
    THEN prev
    ELSE PutEntry(prev, nodeId, handleId, strategy)

\* registerTemplate: does the setter keep the previous state?
IsStoredTemplate(prev, nodeId, template) ==
    nodeId \in DOMAIN prev /\ JsonEqual(prev[nodeId], template)

\* registerTemplate: the new template registry.
registerTemplate(prev, nodeId, template) ==
    IF IsStoredTemplate(prev, nodeId, template)
    THEN prev
    ELSE [n \in DOMAIN prev \cup {nodeId} |-> IF n = nodeId THEN template ELSE prev[n]]

\* registerPsd: { ...prev, [nodeId]: psd }
registerPsd(prev, nodeId, psd) ==
    [n \in DOMAIN prev \cup {nodeId} |-> IF n = nodeId THEN psd ELSE prev[n]]

\* Faulty variant of unregisterNode: a registry holding the node is emptied.
unregisterNodeClears(prev, nodeId) ==
    IF nodeId \in DOMAIN prev THEN EmptyRecord ELSE prev

\* unregisterNode: const { [nodeId]: _, ...rest } = prev; return rest, run on
\* each of the five registries.
unregisterNode(prev, nodeId) ==
    [n \in DOMAIN prev \ {nodeId} |-> prev[n]]

\* registerPayload: does the call dispatch the 'payload-updated' event of
\* type DRAFT_REFRESH?  (`currentPayload === payload` returns before the
\* test; the same object has the same previewUrl.)
EmitsDraftRefresh(prev, nodeId, handleId, payload) ==
    /\ nodeId \in DOMAIN prev
    /\ handleId \in DOMAIN prev[nodeId]
    /\ LET currentPayload == prev[nodeId][handleId]
           isPreviewChanged == currentPayload.previewUrl # payload.previewUrl
           isStructureStable ==
               /\ currentPayload.status = payload.status
               /\ currentPayload.requiresGeneration = payload.requiresGeneration
       IN  isPreviewChanged /\ isStructureStable

\* Faulty variant of updatePreview: a key with no payload gets an entry
\* holding the url.
updatePreviewCreates(prev, nodeId, handleId, url) ==
    IF nodeId \in DOMAIN prev /\ handleId \in DOMAIN prev[nodeId]
    THEN IF prev[nodeId][handleId].previewUrl = url THEN prev
         ELSE PutEntry(prev, nodeId, handleId,
                       [prev[nodeId][handleId] EXCEPT !.previewUrl = url])
    ELSE PutEntry(prev, nodeId, handleId, [NoPayload EXCEPT !.previewUrl = url])

\* updatePreview: the new payload registry (url a non-empty string).
updatePreview(prev, nodeId, handleId, url) ==
    IF nodeId \notin DOMAIN prev THEN prev
    ELSE IF handleId \notin DOMAIN prev[nodeId] THEN prev
    ELSE IF prev[nodeId][handleId].previewUrl = url THEN prev
    ELSE PutEntry(prev, nodeId, handleId,
                  [prev[nodeId][handleId] EXCEPT !.previewUrl = url])

ResultHandleId(i) == <<"result-out", i>>

-----------------------------------------------------------------------------
(* Bounds of the model.                                                    *)

MaxInstances == 2
MaxCredits == 1
MaxEdges == 2
MaxPending == 1
MaxFailures == 2
MaxOverdraft == 2
MaxVersion == 1

Indices == 0..(MaxInstances - 1)

-----------------------------------------------------------------------------
(* The evaluation pass and its effects.                                    *)

\* Faulty variant of SyncPayloads: an instance without a payload is registered
\* as well.
RECURSIVE SyncPayloadsRegistersAll(_, _, _)
SyncPayloadsRegistersAll(prev, insts, k) ==
    IF k > Len(insts) THEN prev
    ELSE SyncPayloadsRegistersAll(
            registerPayload(prev, id, ResultHandleId(insts[k].index), insts[k].payload),
            insts, k + 1)

\* Faulty variant of SyncPayloads: the entry of an instance without a payload
\* is taken out of the registry.
RECURSIVE SyncPayloadsRetracts(_, _, _)
SyncPayloadsRetracts(prev, insts, k) ==
    IF k > Len(insts) THEN prev
    ELSE SyncPayloadsRetracts(
            IF insts[k].hasPayload
            THEN registerPayload(prev, id, ResultHandleId(insts[k].index), insts[k].payload)
            ELSE [n \in DOMAIN prev |->
                    IF n = id
                    THEN [h \in DOMAIN prev[n] \ {ResultHandleId(insts[k].index)} |->
                             prev[n][h]]
                    ELSE prev[n]],
            insts, k + 1)

\* useEffect "Sync Payloads to Store": instances.forEach(registerPayload)
RECURSIVE SyncPayloads(_, _, _)
SyncPayloads(prev, insts, k) ==
    IF k > Len(insts) THEN prev
    ELSE SyncPayloads(
            IF insts[k].hasPayload
            THEN registerPayload(prev, id, ResultHandleId(insts[k].index), insts[k].payload)
            ELSE prev,
            insts, k + 1)

\* Faulty variant of NeedsDraft: an existing preview does not stop a draft.
NeedsDraftIgnoresPreview(instance, generating) ==
    LET isAwaiting == instance.hasPayload /\ instance.payload.status = "awaiting_confirmation"
        hasPrompt == instance.source.aiStrategy.present
                     /\ instance.source.aiStrategy.generativePrompt # ""
    IN  isAwaiting /\ hasPrompt /\ ~generating[instance.index]

\* Faulty variant of NeedsDraft: the in-flight flag is not consulted.
NeedsDraftIgnoresFlag(instance, generating) ==
    LET isAwaiting == instance.hasPayload /\ instance.payload.status = "awaiting_confirmation"
        hasPrompt == instance.source.aiStrategy.present
                     /\ instance.source.aiStrategy.generativePrompt # ""
        existingPreview == IF instance.hasPayload THEN instance.payload.previewUrl ELSE ""
    IN  isAwaiting /\ hasPrompt /\ existingPreview = ""

\* Faulty variant of NeedsDraft: the in-flight test is inverted.
NeedsDraftFlagInverted(instance, generating) ==
    LET isAwaiting == instance.hasPayload /\ instance.payload.status = "awaiting_confirmation"
        hasPrompt == instance.source.aiStrategy.present
                     /\ instance.source.aiStrategy.generativePrompt # ""
        existingPreview == IF instance.hasPayload THEN instance.payload.previewUrl ELSE ""
    IN  isAwaiting /\ hasPrompt /\ existingPreview = "" /\ generating[instance.index]

\* useEffect "LAZY SYNTHESIS": the condition under which generateDraft() is
\* called for an instance.
NeedsDraft(instance, generating) ==
    LET isAwaiting == instance.hasPayload /\ instance.payload.status = "awaiting_confirmation"
        hasPrompt == instance.source.aiStrategy.present
                     /\ instance.source.aiStrategy.generativePrompt # ""
        existingPreview == IF instance.hasPayload THEN instance.payload.previewUrl ELSE ""
    IN  isAwaiting /\ hasPrompt /\ existingPreview = "" /\ ~generating[instance.index]

\* A render of the node: the useMemo pass over all instances, then the two
\* effects.  generateDraft runs up to its await: it sets the in-flight flag
\* and leaves a request with the API.
Render ==
    \E result \in {ComputeInstances(instanceCount, edges, resolvedRegistry,
                                    templateRegistry, confirmations, userCredits,
                                    previews, bleedPercent)} :
      \E started \in {{i \in Indices : \E k \in 1..Len(result) :
                         result[k].index = i /\ NeedsDraft(result[k], isGeneratingPreview)}} :
        /\ instances' = result
        /\ payloadRegistry' = SyncPayloads(payloadRegistry, result, 1)
        /\ isGeneratingPreview' = [i \in Indices |-> isGeneratingPreview[i] \/ i \in started]
        /\ draftRequests' = [i \in Indices |->
                                IF i \in started THEN draftRequests[i] + 1
                                ELSE draftRequests[i]]
        /\ refreshEvents' =
              {ResultHandleId(result[k].index) :
                 k \in {j \in 1..Len(result) :
                          /\ result[j].hasPayload
                          /\ EmitsDraftRefresh(payloadRegistry, id,
                                               ResultHandleId(result[j].index),
                                               result[j].payload)}}
        /\ pending' = 0
        /\ UNCHANGED <<templateRegistry, resolvedRegistry, userCredits, edges,
                       instanceCount, confirmations, previews, failedDrafts,
                       bleedPercent, psdRegistry, analysisRegistry, globalVersion,
                       isPro>>

-----------------------------------------------------------------------------
(* Inputs of the pass specification.                                       *)

Layer(layerId, type, x, y, w, h, hasChildren, children) ==
    [id |-> layerId, type |-> type, coords |-> Rect(x, y, w, h),
     hasChildren |-> hasChildren, children |-> children]

\* A group equal to the source rectangle holding a nested group and a leaf,
\* beside a second root layer: three levels deep.
TreeRooted(s) ==
    <<Layer("g", "group", s.x.n, s.y.n, s.w.n, s.h.n, TRUE,
            <<Layer("a", "group", s.x.n + 10, s.y.n + 20, 30, 40, TRUE,
                    <<Layer("b", "layer", s.x.n + 20, s.y.n + 30, 10, 10, FALSE, <<>>)>>),
              Layer("d", "layer", s.x.n + 5, s.y.n + 60, 20, 10, FALSE, <<>>)>>),
      Layer("c", "layer", s.x.n + 30, s.y.n + 10, 20, 20, FALSE, <<>>)>>

\* No layer touches the top of the source rectangle; one group has an empty
\* children array.
TreePadded(s) ==
    <<Layer("a", "group", s.x.n + 10, s.y.n + 20, 30, 40, TRUE,
            <<Layer("b", "layer", s.x.n + 20, s.y.n + 30, 10, 10, FALSE, <<>>)>>),
      Layer("e", "group", s.x.n + 5, s.y.n + 40, 20, 10, TRUE, <<>>)>>

SourceRects == {Rect(0, 0, 100, 100), Rect(10, 20, 200, 100)}
TargetRects == {Rect(0, 0, 50, 200), Rect(0, 0, 100, 50), Rect(30, 40, 300, 300)}

Override(layerId, xOffset, yOffset, sn, sd) ==
    [layerId |-> layerId, xOffset |-> R(xOffset), yOffset |-> R(yOffset),
     individualScale |-> Rat(sn, sd)]

OverrideLists ==
    { <<>>,
      <<Override("g", 5, 10, 1, 1)>>,
      <<Override("a", 0, -1000, 2, 1)>>,
      <<Override("a", 7, 30, 1, 2), Override("b", 20, 1000, 3, 1)>>,
      <<Override("g", 5, 10, 3, 2), Override("b", -3, 15, 2, 1)>>,
      <<Override("zz", 1, 1, 2, 1)>>,
      <<Override("a", 7, 30, 1, 2), Override("a", 0, 0, 1, 1)>> }

SuggestedScales == {Rat(1, 2), R(1), R(2), Rat(5, 2)}
Anchors == {"TOP", "BOTTOM", "CENTER"}
Prompts == {"", "fill sky"}

Strategies ==
    {NoStrategy} \cup
    { [present |-> TRUE, method |-> "GENERATIVE", suggestedScale |-> sc, anchor |-> an,
       generativePrompt |-> pr, isExplicitIntent |-> ex, overrides |-> ov] :
         sc \in SuggestedScales, an \in Anchors, pr \in Prompts,
         ex \in BOOLEAN, ov \in OverrideLists }

\* The values MAX_BOUNDARY_VIOLATION_PERCENT may have.
BleedPercents == {Rat(1, 20), Rat(1, 4)}

PassContexts ==
    { [container |-> [containerName |-> "HERO", bounds |-> s],
       layers |-> ls, aiStrategy |-> st, previewUrl |-> ""] :
         s \in SourceRects, st \in Strategies,
         ls \in UNION {{TreeRooted(r), TreePadded(r)} : r \in SourceRects} }

\* Init of the pass specification: one instance wired to a registered source
\* context and to a one-container template, the pass not yet run.
PassInit ==
    /\ \E ctx \in PassContexts :
          /\ ctx.layers \in {TreeRooted(ctx.container.bounds), TreePadded(ctx.container.bounds)}
          /\ resolvedRegistry = PutEntry(EmptyRecord, "analyst", Str("", "source-out-0"), ctx)
    /\ \E t \in TargetRects :
          templateRegistry =
             [n \in {"template"} |->
                 [containers |-> <<[name |-> Str("", "BG"), originalName |-> EmptyStr,
                                    bounds |-> t]>>]]
    /\ edges = <<[source |-> "analyst", sourceHandle |-> Str("", "source-out-0"),
                  targetHandle |-> SourceHandleId(0)],
                 [source |-> "template", sourceHandle |-> Str("", "BG"),
                  targetHandle |-> TargetHandleId(0)]>>
    /\ payloadRegistry = EmptyRecord
    /\ userCredits \in 0..MaxCredits
    /\ instanceCount = 1
    /\ \E c \in BOOLEAN : confirmations = [i \in Indices |-> c /\ i = 0]
    /\ previews = [i \in Indices |-> ""]
    /\ isGeneratingPreview = [i \in Indices |-> FALSE]
    /\ draftRequests = [i \in Indices |-> 0]
    /\ failedDrafts = [i \in Indices |-> 0]
    /\ refreshEvents = {}
    /\ psdRegistry = EmptyRecord
    /\ analysisRegistry = EmptyRecord
    /\ globalVersion = 0
    /\ isPro = FALSE
    /\ instances = <<>>
    /\ pending = 1
    /\ bleedPercent \in BleedPercents

PassNext == Render

PassSpec == PassInit /\ [][PassNext]_vars

-----------------------------------------------------------------------------
(* The session specification: the store, the graph and one node over time. *)
(* React re-renders the node after a state change; the model lets at most  *)
(* MaxPending changes of the store, the graph or the drafts go unrendered. *)
(* A click lands on what the last render shows, even when changes pend.    *)

\* useState<number>(5)
InitialCredits == 5

\* Faulty variant of SanitizeContext: the preview of a GEOMETRIC strategy is
\* flushed, its generative prompt is kept.
SanitizeContextKeepsPrompt(context) ==
    IF context.aiStrategy.present /\ context.aiStrategy.method = "GEOMETRIC"
    THEN [context EXCEPT !.previewUrl = ""]
    ELSE context

\* registerResolved: the context committed to the registry.  A GEOMETRIC
\* strategy loses its preview and its generative prompt.
SanitizeContext(context) ==
    IF context.aiStrategy.present /\ context.aiStrategy.method = "GEOMETRIC"
    THEN [context EXCEPT !.previewUrl = "", !.aiStrategy.generativePrompt = ""]
    ELSE context

\* registerResolved: the new resolved registry.
registerResolved(prev, nodeId, handleId, context) ==
    LET sanitizedContext == SanitizeContext(context)
    IN  IF IsStored(prev, nodeId, handleId, sanitizedContext)
        THEN prev
        ELSE PutEntry(prev, nodeId, handleId, sanitizedContext)

SessionStrategy(method, sn, sd, anchor, isExplicitIntent, overrides) ==
    [present |-> TRUE, method |-> method, suggestedScale |-> Rat(sn, sd),
     anchor |-> anchor, generativePrompt |-> "fill sky",
     isExplicitIntent |-> isExplicitIntent, overrides |-> overrides]

SessionContext(strategy, previewUrl) ==
    [container |-> [containerName |-> "HERO", bounds |-> Rect(0, 0, 100, 100)],
     layers |-> TreePadded(Rect(0, 0, 100, 100)), aiStrategy |-> strategy,
     previewUrl |-> previewUrl]

\* What the upstream node registers: no strategy; explicit generative intent,
\* without and with a draft of its own; implicit intent below the stretch
\* threshold; a GEOMETRIC strategy still carrying prompt and draft.
SessionContexts ==
    { SessionContext(NoStrategy, ""),
      SessionContext(SessionStrategy("GENERATIVE", 2, 1, "TOP", TRUE,
                                     <<Override("a", 0, -1000, 2, 1)>>), ""),
      SessionContext(SessionStrategy("GENERATIVE", 2, 1, "TOP", TRUE,
                                     <<Override("a", 0, -1000, 2, 1)>>), "upstream"),
      SessionContext(SessionStrategy("GENERATIVE", 1, 2, "BOTTOM", FALSE, <<>>), ""),
      SessionContext(SessionStrategy("GEOMETRIC", 1, 2, "CENTER", TRUE, <<>>), "upstream") }

SessionTemplates ==
    { [containers |-> <<[name |-> Str("target-out-", "0"), originalName |-> Str("", "BG"),
                         bounds |-> Rect(0, 0, 50, 200)]>>] }

SessionEdges ==
    { [source |-> "analyst", sourceHandle |-> Str("", "source-out-0"),
       targetHandle |-> SourceHandleId(i)] : i \in Indices }
    \cup
    { [source |-> "template", sourceHandle |-> h, targetHandle |-> TargetHandleId(i)] :
         h \in {Str("slot-bounds-", "BG")}, i \in Indices }

Init ==
    /\ templateRegistry = EmptyRecord
    /\ resolvedRegistry = EmptyRecord
    /\ payloadRegistry = EmptyRecord
    /\ userCredits = InitialCredits
    /\ edges = <<>>
    /\ instanceCount = 1
    /\ confirmations = [i \in Indices |-> FALSE]
    /\ previews = [i \in Indices |-> ""]
    /\ isGeneratingPreview = [i \in Indices |-> FALSE]
    /\ draftRequests = [i \in Indices |-> 0]
    /\ failedDrafts = [i \in Indices |-> 0]
    /\ refreshEvents = {}
    /\ psdRegistry = EmptyRecord
    /\ analysisRegistry = EmptyRecord
    /\ globalVersion = 0
    /\ isPro = FALSE
    /\ pending = 0
    /\ bleedPercent = Rat(1, 20)
    /\ instances = ComputeInstances(instanceCount, <<>>, EmptyRecord, EmptyRecord,
                                    [i \in Indices |-> FALSE], InitialCredits,
                                    [i \in Indices |-> ""], bleedPercent)

\* A state setter ran: it queues a render unless it kept the previous value.
Queued(changed) ==
    /\ pending < MaxPending
    /\ pending' = IF changed THEN pending + 1 ELSE pending

\* store.registerResolved(nodeId, handleId, context), called by an upstream node
RegisterResolved(nodeId, handleId, context) ==
    /\ resolvedRegistry' = registerResolved(resolvedRegistry, nodeId, handleId, context)
    /\ Queued(~IsStored(resolvedRegistry, nodeId, handleId, SanitizeContext(context)))
    /\ UNCHANGED <<templateRegistry, payloadRegistry, userCredits, edges, instanceCount,
                   confirmations, previews, isGeneratingPreview, instances,
                   draftRequests, failedDrafts, bleedPercent, refreshEvents,
                   psdRegistry, analysisRegistry, globalVersion, isPro>>

\* store.registerTemplate(nodeId, template), called by a template node
RegisterTemplate(nodeId, template) ==
    /\ templateRegistry' = registerTemplate(templateRegistry, nodeId, template)
    /\ Queued(~IsStoredTemplate(templateRegistry, nodeId, template))
    /\ UNCHANGED <<resolvedRegistry, payloadRegistry, userCredits, edges, instanceCount,
                   confirmations, previews, isGeneratingPreview, instances,
                   draftRequests, failedDrafts, bleedPercent, refreshEvents,
                   psdRegistry, analysisRegistry, globalVersion, isPro>>

\* store.setCredits(amount)
SetCredits(amount) ==
    /\ userCredits' = amount
    /\ Queued(amount # userCredits)
    /\ UNCHANGED <<templateRegistry, resolvedRegistry, payloadRegistry, edges,
                   instanceCount, confirmations, previews, isGeneratingPreview,
                   instances, draftRequests, failedDrafts, bleedPercent, refreshEvents,
                   psdRegistry, analysisRegistry, globalVersion, isPro>>

\* The balance the store's last render captured in the consumeCredit
\* callback (useCallback with [userCredits]): the provider and the node
\* render in one commit, so it is the balance the node's last pass read.
\* Before the first render there is no callback to call.
RenderedCredits == instances[1].credits

\* store.consumeCredit(amount), called from an event handler: the test reads
\* the captured balance, the updater `prev => prev - amount` is applied to
\* the current one.  A call that returns false changes nothing.  The model
\* follows the balance down to -MaxOverdraft.
ConsumeCredit(amount) ==
    /\ Len(instances) > 0
    /\ RenderedCredits >= amount
    /\ userCredits - amount >= -MaxOverdraft
    /\ userCredits' = userCredits - amount
    /\ UNCHANGED <<templateRegistry, resolvedRegistry, payloadRegistry, edges,
                   instanceCount, confirmations, previews, isGeneratingPreview,
                   instances, draftRequests, pending, failedDrafts, bleedPercent, refreshEvents,
                   psdRegistry, analysisRegistry, globalVersion, isPro>>

\* store.updatePreview(nodeId, handleId, url), called by another node
UpdatePreview(nodeId, handleId, url) ==
    /\ payloadRegistry' = updatePreview(payloadRegistry, nodeId, handleId, url)
    /\ Queued(payloadRegistry' # payloadRegistry)
    /\ UNCHANGED <<templateRegistry, resolvedRegistry, userCredits, edges, instanceCount,
                   confirmations, previews, isGeneratingPreview, instances,
                   draftRequests, failedDrafts, bleedPercent, refreshEvents,
                   psdRegistry, analysisRegistry, globalVersion, isPro>>

\* store.registerPsd(nodeId, psd): the setter builds a new object every time.
RegisterPsd(nodeId, psd) ==
    /\ psdRegistry' = registerPsd(psdRegistry, nodeId, psd)
    /\ Queued(TRUE)
    /\ UNCHANGED <<templateRegistry, resolvedRegistry, payloadRegistry, userCredits, edges,
                   instanceCount, confirmations, previews, isGeneratingPreview, instances,
                   draftRequests, failedDrafts, bleedPercent, refreshEvents,
                   analysisRegistry, globalVersion, isPro>>

\* store.registerAnalysis(nodeId, handleId, strategy), called by an analyst
RegisterAnalysis(nodeId, handleId, strategy) ==
    /\ analysisRegistry' = registerAnalysis(analysisRegistry, nodeId, handleId, strategy)
    /\ Queued(~IsStored(analysisRegistry, nodeId, handleId, strategy))
    /\ UNCHANGED <<templateRegistry, resolvedRegistry, payloadRegistry, userCredits, edges,
                   instanceCount, confirmations, previews, isGeneratingPreview, instances,
                   draftRequests, failedDrafts, bleedPercent, refreshEvents,
                   psdRegistry, globalVersion, isPro>>

\* store.unregisterNode(nodeId): five setters, each returning a new object.
UnregisterNode(nodeId) ==
    /\ psdRegistry' = unregisterNode(psdRegistry, nodeId)
    /\ templateRegistry' = unregisterNode(templateRegistry, nodeId)
    /\ resolvedRegistry' = unregisterNode(resolvedRegistry, nodeId)
    /\ payloadRegistry' = unregisterNode(payloadRegistry, nodeId)
    /\ analysisRegistry' = unregisterNode(analysisRegistry, nodeId)
    /\ Queued(TRUE)
    /\ UNCHANGED <<userCredits, edges, instanceCount, confirmations, previews,
                   isGeneratingPreview, instances, draftRequests, failedDrafts,
                   bleedPercent, refreshEvents, globalVersion, isPro>>

\* store.triggerGlobalRefresh()
TriggerGlobalRefresh ==
    /\ globalVersion < MaxVersion
    /\ globalVersion' = globalVersion + 1
    /\ Queued(TRUE)
    /\ UNCHANGED <<templateRegistry, resolvedRegistry, payloadRegistry, userCredits, edges,
                   instanceCount, confirmations, previews, isGeneratingPreview, instances,
                   draftRequests, failedDrafts, bleedPercent, refreshEvents,
                   psdRegistry, analysisRegistry, isPro>>

\* store.setProStatus(status)
SetProStatus(status) ==
    /\ isPro' = status
    /\ Queued(isPro' # isPro)
    /\ UNCHANGED <<templateRegistry, resolvedRegistry, payloadRegistry, userCredits, edges,
                   instanceCount, confirmations, previews, isGeneratingPreview, instances,
                   draftRequests, failedDrafts, bleedPercent, refreshEvents,
                   psdRegistry, analysisRegistry, globalVersion>>

\* The user draws an edge to one of the node's input handles.
Connect(edge) ==
    /\ Queued(TRUE)
    /\ Len(edges) < MaxEdges
    /\ \E i \in 0..(instanceCount - 1) :
          edge.targetHandle \in {SourceHandleId(i), TargetHandleId(i)}
    /\ \A k \in 1..Len(edges) : edges[k] # edge
    /\ edges' = Append(edges, edge)
    /\ UNCHANGED <<templateRegistry, resolvedRegistry, payloadRegistry, userCredits,
                   instanceCount, confirmations, previews, isGeneratingPreview,
                   instances, draftRequests, failedDrafts, bleedPercent, refreshEvents,
                   psdRegistry, analysisRegistry, globalVersion, isPro>>

\* The user deletes an edge.
Disconnect(k) ==
    /\ Queued(TRUE)
    /\ k \in 1..Len(edges)
    /\ edges' = SubSeq(edges, 1, k - 1) \o SubSeq(edges, k + 1, Len(edges))
    /\ UNCHANGED <<templateRegistry, resolvedRegistry, payloadRegistry, userCredits,
                   instanceCount, confirmations, previews, isGeneratingPreview,
                   instances, draftRequests, failedDrafts, bleedPercent, refreshEvents,
                   psdRegistry, analysisRegistry, globalVersion, isPro>>

\* What the last render shows for an instance: the "Confirm Generation"
\* button is on screen.
ConfirmButtonShown(instance) ==
    LET hasPreview == instance.payload.previewUrl # ""
        isAwaiting == instance.payload.status = "awaiting_confirmation"
        showOverlay == hasPreview \/ isAwaiting
        previewUrl == IF instance.payload.previewUrl # "" THEN instance.payload.previewUrl
                      ELSE instance.localPreview
    IN  /\ instance.hasPayload
        /\ showOverlay
        /\ isAwaiting /\ ~instance.payload.isConfirmed /\ previewUrl # ""
        /\ instance.credits > 0

\* Faulty variant of ConfirmGeneration: the click spends a credit.
ConfirmGenerationConsumes(k) ==
    /\ k \in 1..Len(instances)
    /\ ConfirmButtonShown(instances[k])
    /\ confirmations' = [confirmations EXCEPT ![instances[k].index] = TRUE]
    /\ userCredits' = userCredits - 1
    /\ UNCHANGED <<templateRegistry, resolvedRegistry, payloadRegistry,
                   edges, instanceCount, previews, isGeneratingPreview, instances,
                   draftRequests, pending, failedDrafts, bleedPercent, refreshEvents,
                   psdRegistry, analysisRegistry, globalVersion, isPro>>

\* The user clicks the button: handleConfirmGeneration(index)
ConfirmGeneration(k) ==
    /\ k \in 1..Len(instances)
    /\ ConfirmButtonShown(instances[k])
    /\ confirmations' = [confirmations EXCEPT ![instances[k].index] = TRUE]
    /\ UNCHANGED <<templateRegistry, resolvedRegistry, payloadRegistry, userCredits,
                   edges, instanceCount, previews, isGeneratingPreview, instances,
                   draftRequests, pending, failedDrafts, bleedPercent, refreshEvents,
                   psdRegistry, analysisRegistry, globalVersion, isPro>>

\* History of a draft: when generateDraft returns, is the instance still
\* ready with a strategy that carries a prompt (in the store and the graph as
\* they are at that moment)?
StillWanted(i) ==
    LET sourceData == ResolveSource(i, edges, resolvedRegistry)
        targetData == ResolveTarget(i, edges, templateRegistry)
    IN  /\ i < instanceCount
        /\ sourceData.ready /\ targetData.ready
        /\ sourceData.aiStrategy.present
        /\ sourceData.aiStrategy.generativePrompt # ""

\* Faulty variant of DraftSucceeds: the returned image also approves the
\* generation of the instance.
DraftSucceedsConfirms(i) ==
    /\ Queued(TRUE)
    /\ draftRequests[i] > 0
    /\ draftRequests' = [draftRequests EXCEPT ![i] = @ - 1]
    /\ previews' = [previews EXCEPT ![i] = IF StillWanted(i) THEN "draft"
                                           ELSE "stale-draft"]
    /\ isGeneratingPreview' = [isGeneratingPreview EXCEPT ![i] = FALSE]
    /\ confirmations' = [confirmations EXCEPT ![i] = TRUE]
    /\ UNCHANGED <<templateRegistry, resolvedRegistry, payloadRegistry, userCredits,
                   edges, instanceCount, instances, failedDrafts, bleedPercent, refreshEvents,
                   psdRegistry, analysisRegistry, globalVersion, isPro>>

\* generateDraft after its await, an image in the response: the preview is
\* stored and the in-flight flag cleared.  The url is a data: url; the model
\* names it "draft", or "stale-draft" when the instance no longer wanted it.
DraftSucceeds(i) ==
    /\ Queued(TRUE)
    /\ draftRequests[i] > 0
    /\ draftRequests' = [draftRequests EXCEPT ![i] = @ - 1]
    /\ previews' = [previews EXCEPT ![i] = IF StillWanted(i) THEN "draft"
                                           ELSE "stale-draft"]
    /\ isGeneratingPreview' = [isGeneratingPreview EXCEPT ![i] = FALSE]
    /\ UNCHANGED <<templateRegistry, resolvedRegistry, payloadRegistry, userCredits,
                   edges, instanceCount, confirmations, instances, failedDrafts,
                   bleedPercent, refreshEvents,
                   psdRegistry, analysisRegistry, globalVersion, isPro>>

\* Faulty variant of DraftFails: the in-flight flag is not cleared when the
\* call ends without an image.
DraftFailsLeavesFlag(i) ==
    /\ Queued(TRUE)
    /\ draftRequests[i] > 0
    /\ failedDrafts[i] < MaxFailures
    /\ draftRequests' = [draftRequests EXCEPT ![i] = @ - 1]
    /\ failedDrafts' = [failedDrafts EXCEPT ![i] = @ + 1]
    /\ UNCHANGED <<templateRegistry, resolvedRegistry, payloadRegistry, userCredits,
                   edges, instanceCount, confirmations, previews, instances,
                   isGeneratingPreview, bleedPercent, refreshEvents,
                   psdRegistry, analysisRegistry, globalVersion, isPro>>

\* generateDraft ends without an image (no API key, no image in the
\* response, or the call throws): only the in-flight flag is cleared.  The
\* model follows at most MaxFailures such endings per instance.
DraftFails(i) ==
    /\ Queued(TRUE)
    /\ draftRequests[i] > 0
    /\ failedDrafts[i] < MaxFailures
    /\ draftRequests' = [draftRequests EXCEPT ![i] = @ - 1]
    /\ failedDrafts' = [failedDrafts EXCEPT ![i] = @ + 1]
    /\ isGeneratingPreview' = [isGeneratingPreview EXCEPT ![i] = FALSE]
    /\ UNCHANGED <<templateRegistry, resolvedRegistry, payloadRegistry, userCredits,
                   edges, instanceCount, confirmations, previews, instances,
                   bleedPercent, refreshEvents,
                   psdRegistry, analysisRegistry, globalVersion, isPro>>

Next ==
    \/ \E ctx \in SessionContexts : RegisterResolved("analyst", Str("", "source-out-0"), ctx)
    \/ \E tpl \in SessionTemplates : RegisterTemplate("template", tpl)
    \/ \E amount \in 0..MaxCredits : SetCredits(amount)
    \/ \E edge \in SessionEdges : Connect(edge)
    \/ \E k \in 1..MaxEdges : Disconnect(k)
    \/ \E k \in 1..MaxInstances : ConfirmGeneration(k)
    \/ \E i \in Indices : DraftSucceeds(i)
    \/ \E i \in Indices : DraftFails(i)
    \/ Render

Spec == Init /\ [][Next]_vars

-----------------------------------------------------------------------------
(* The resolver specification: one pass over every wiring of one instance. *)

\* A container of a template; its bounds tell it from the others of its list.
Container(name, originalName, k) ==
    [name |-> name, originalName |-> originalName, bounds |-> Rect(0, 0, 100 * k, 50)]

ResolveContainerLists ==
    { <<>>,
      <<Container(Str("", "BG"), EmptyStr, 1)>>,
      <<Container(Str("", "HERO"), Str("", "Hero Banner"), 1)>>,
      <<Container(Str("", "HERO"), EmptyStr, 1), Container(Str("", "BG"), Str("", "Backdrop"), 2)>>,
      <<Container(Str("target-out-", "1"), Str("", "TITLE"), 1),
        Container(Str("", "BG"), EmptyStr, 2)>>,
      <<Container(Str("target-out-", "0"), Str("", "BG"), 1),
        Container(Str("target-out-", "1"), EmptyStr, 2)>>,
      <<Container(Str("slot-bounds-", "BG"), EmptyStr, 1),
        Container(Str("", "BG"), EmptyStr, 2)>>,
      <<Container(Str("", "BG"), Str("", "First"), 1),
        Container(Str("", "BG"), Str("", "Second"), 2)>>,
      <<Container(Str("", "HERO"), EmptyStr, 1), Container(Str("", "BG"), EmptyStr, 2),
        Container(Str("", "FOOT"), Str("", "Footer"), 3)>> }

\* The origin handle of the edge drawn to target-in-0; EmptyStr is an edge
\* whose sourceHandle is null.
ResolveHandles ==
    { Str("", "BG"), Str("", "NONE"), Str("slot-bounds-", "BG"), Str("slot-bounds-", "NONE"),
      Str("target-out-", "0"), Str("target-out-", "1"), Str("target-out-", "2"),
      Str("target-out-", "3"), Str("target-out-", "x"), EmptyStr }

\* The edge drawn to source-in-0, if any: to the registered handle, to a
\* handle the analyst never registered, from a node that registered nothing,
\* and without a sourceHandle.
ResolveSourceEdges ==
    { <<>> } \cup
    { <<[source |-> n, sourceHandle |-> h, targetHandle |-> SourceHandleId(0)]>> :
        n \in {"analyst", "stranger"},
        h \in {Str("", "source-out-0"), Str("", "source-out-9"), EmptyStr} }

ResolveTargetEdges ==
    { <<>> } \cup
    { <<[source |-> n, sourceHandle |-> h, targetHandle |-> TargetHandleId(0)]>> :
        n \in {"template"}, h \in ResolveHandles }

ResolveInit ==
    /\ resolvedRegistry = PutEntry(EmptyRecord, "analyst", Str("", "source-out-0"),
                                   [container |-> [containerName |-> "HERO",
                                                   bounds |-> Rect(0, 0, 100, 100)],
                                    layers |-> TreePadded(Rect(0, 0, 100, 100)),
                                    aiStrategy |-> NoStrategy, previewUrl |-> ""])
    /\ templateRegistry \in
          {EmptyRecord} \cup
          {[n \in {"template"} |-> [containers |-> cs]] : cs \in ResolveContainerLists}
    /\ \E se \in ResolveSourceEdges, te \in ResolveTargetEdges :
          edges \in {se \o te, te \o se}
    /\ payloadRegistry = EmptyRecord
    /\ userCredits = InitialCredits
    /\ instanceCount = 1
    /\ confirmations = [i \in Indices |-> FALSE]
    /\ previews = [i \in Indices |-> ""]
    /\ isGeneratingPreview = [i \in Indices |-> FALSE]
    /\ draftRequests = [i \in Indices |-> 0]
    /\ failedDrafts = [i \in Indices |-> 0]
    /\ refreshEvents = {}
    /\ psdRegistry = EmptyRecord
    /\ analysisRegistry = EmptyRecord
    /\ globalVersion = 0
    /\ isPro = FALSE
    /\ instances = <<>>
    /\ pending = 1
    /\ bleedPercent = Rat(1, 20)

ResolveNext == Render

ResolveSpec == ResolveInit /\ [][ResolveNext]_vars

-----------------------------------------------------------------------------
(* The node specification: every instance of the node wired to a context   *)
(* handle of its own and to the template, the store and the drafts moving. *)

\* The decimal string of a small number.
Digits(n) == CHOOSE d \in DigitStrings : ParseInt(d) = n

\* The analyst's output handle feeding instance i.
SourceOut(i) == Str("", "source-out-" \o Digits(i))

\* A context of one layer.
NodeContext(strategy, previewUrl) ==
    [container |-> [containerName |-> "HERO", bounds |-> Rect(0, 0, 100, 100)],
     layers |-> <<Layer("a", "layer", 10, 20, 30, 40, FALSE, <<>>)>>,
     aiStrategy |-> strategy, previewUrl |-> previewUrl]

\* What the analyst registers for instance i: an explicit generative intent
\* and, for the first instance, the same with a draft of the analyst's own
\* and a GEOMETRIC strategy.
NodeContexts(i) ==
    { NodeContext(SessionStrategy("GENERATIVE", 2, 1, "TOP", TRUE, <<>>), "") }
    \cup
    IF i = 0
    THEN { NodeContext(SessionStrategy("GENERATIVE", 2, 1, "TOP", TRUE, <<>>), "upstream"),
           NodeContext(SessionStrategy("GEOMETRIC", 1, 2, "CENTER", TRUE, <<>>), "upstream") }
    ELSE {}

\* Both input handles of every instance are connected.
NodeEdges ==
    [k \in 1..(2 * MaxInstances) |->
        IF k % 2 = 1
        THEN [source |-> "analyst", sourceHandle |-> SourceOut((k - 1) \div 2),
              targetHandle |-> SourceHandleId((k - 1) \div 2)]
        ELSE [source |-> "template", sourceHandle |-> Str("slot-bounds-", "BG"),
              targetHandle |-> TargetHandleId((k - 1) \div 2)]]

NodeInit ==
    /\ \E tpl \in SessionTemplates : templateRegistry = [n \in {"template"} |-> tpl]
    /\ resolvedRegistry = EmptyRecord
    /\ payloadRegistry = EmptyRecord
    /\ userCredits = InitialCredits
    /\ edges = NodeEdges
    /\ instanceCount = MaxInstances
    /\ confirmations = [i \in Indices |-> FALSE]
    /\ previews = [i \in Indices |-> ""]
    /\ isGeneratingPreview = [i \in Indices |-> FALSE]
    /\ draftRequests = [i \in Indices |-> 0]
    /\ failedDrafts = [i \in Indices |-> 0]
    /\ refreshEvents = {}
    /\ psdRegistry = EmptyRecord
    /\ analysisRegistry = EmptyRecord
    /\ globalVersion = 0
    /\ isPro = FALSE
    /\ pending = 1
    /\ bleedPercent = Rat(1, 20)
    /\ instances = <<>>

NodeNext ==
    \/ \E i \in Indices : \E ctx \in NodeContexts(i) :
          RegisterResolved("analyst", SourceOut(i), ctx)
    \/ \E amount \in {0, InitialCredits} : SetCredits(amount)
    \/ \E k \in 1..MaxInstances : ConfirmGeneration(k)
    \/ \E i \in Indices : DraftSucceeds(i)
    \/ \E i \in Indices : DraftFails(i)
    \/ Render

NodeSpec == NodeInit /\ [][NodeNext]_vars

-----------------------------------------------------------------------------
(* The draft specification: the node fully wired, the analyst registering  *)
(* explicit generative intents, the drafts returning, and the scheduling:  *)
(* React renders a queued change, and a generateDraft call that was        *)
(* started returns (with or without an image) or throws.                   *)

DraftNext ==
    \/ \E i \in Indices :
          RegisterResolved("analyst", SourceOut(i),
                           NodeContext(SessionStrategy("GENERATIVE", 2, 1, "TOP", TRUE, <<>>), ""))
    \/ \E i \in Indices : DraftSucceeds(i)
    \/ \E i \in Indices : DraftFails(i)
    \/ Render

\* A render changes the state exactly when a change is queued.
RenderQueued == pending > 0

\* Weak fairness of Render, written with its enabling condition RenderQueued;
\* strong fairness of the return of each draft, which waits for the render
\* of an earlier change.
DraftSpec ==
    /\ NodeInit /\ [][DraftNext]_vars
    /\ ([]<>(~RenderQueued) \/ []<><<Render>>_vars)
    /\ \A i \in Indices : SF_vars(DraftSucceeds(i) \/ DraftFails(i))

-----------------------------------------------------------------------------
(* The credit specification: the node fully wired, the analyst registering *)
(* contexts, and the balance set and consumed through the store.           *)

CreditNext ==
    \/ \E i \in Indices : \E ctx \in NodeContexts(i) :
          RegisterResolved("analyst", SourceOut(i), ctx)
    \/ \E amount \in 0..MaxCredits : SetCredits(amount)
    \/ \E amount \in 0..MaxCredits : ConsumeCredit(amount)
    \/ Render

CreditSpec == NodeInit /\ [][CreditNext]_vars

-----------------------------------------------------------------------------
(* The refresh specification: the node fully wired, the analyst switching  *)
(* between two explicit generative intents that differ in scale and in     *)
(* their own draft, and the local drafts returning.                        *)

RefreshContexts ==
    { NodeContext(SessionStrategy("GENERATIVE", 2, 1, "TOP", TRUE, <<>>), ""),
      NodeContext(SessionStrategy("GENERATIVE", 1, 1, "TOP", TRUE, <<>>), "upstream") }

RefreshNext ==
    \/ \E i \in Indices : \E ctx \in RefreshContexts :
          RegisterResolved("analyst", SourceOut(i), ctx)
    \/ \E i \in Indices : DraftSucceeds(i)
    \/ \E i \in Indices : DraftFails(i)
    \/ Render

RefreshSpec == NodeInit /\ [][RefreshNext]_vars

-----------------------------------------------------------------------------
(* The store specification: the node fully wired, and the store written by *)
(* the analyst, by a node that patches previews, and by the node's passes. *)

StoreNodeIds == {id, "export"}

StoreHandleIds == {ResultHandleId(i) : i \in Indices}

PreviewUrls == {"patched", "draft"}

\* What a loader node registers: its document, and a template no edge of the
\* node leads to.
Psds == {"document"}

LoaderTemplates ==
    { [containers |-> <<[name |-> Str("", "SIDE"), originalName |-> EmptyStr,
                         bounds |-> Rect(0, 0, 10, 10)]>>] }

\* A strategy as a model's JSON answer is parsed: the same two members in
\* either order, and another strategy.
AnalysisStrategy(keys, method, suggestedScale) ==
    [keys |-> keys, method |-> method, suggestedScale |-> suggestedScale]

AnalysisStrategies ==
    { AnalysisStrategy(<<"method", "suggestedScale">>, "GEOMETRIC", R(1)),
      AnalysisStrategy(<<"suggestedScale", "method">>, "GEOMETRIC", R(1)),
      AnalysisStrategy(<<"method", "suggestedScale">>, "GENERATIVE", R(2)) }

AnalysisHandleIds == {SourceOut(0)}

\* The nodes that unmount; "note" has registered nothing.
UnmountedNodeIds == {id, "analyst", "loader", "note"}

StoreNext ==
    \/ \E i \in Indices : \E ctx \in NodeContexts(i) :
          RegisterResolved("analyst", SourceOut(i), ctx)
    \/ \E nodeId \in StoreNodeIds : \E handleId \in StoreHandleIds : \E url \in PreviewUrls :
          UpdatePreview(nodeId, handleId, url)
    \/ \E psd \in Psds : RegisterPsd("loader", psd)
    \/ \E template \in LoaderTemplates : RegisterTemplate("loader", template)
    \/ \E handleId \in AnalysisHandleIds : \E strategy \in AnalysisStrategies :
          RegisterAnalysis("analyst", handleId, strategy)
    \/ \E nodeId \in UnmountedNodeIds : UnregisterNode(nodeId)
    \/ TriggerGlobalRefresh
    \/ \E status \in BOOLEAN : SetProStatus(status)
    \/ Render

StoreSpec == NodeInit /\ [][StoreNext]_vars

-----------------------------------------------------------------------------
(* The confirm specification: the node fully wired, the analyst switching  *)
(* between a prompt that comes with a preview and another prompt that      *)
(* comes with none, the balance set, and the user confirming.  No draft    *)
(* returns, so the confirm button is only ever shown for the first prompt. *)

ConfirmContexts ==
    { NodeContext(SessionStrategy("GENERATIVE", 2, 1, "TOP", TRUE, <<>>), "upstream"),
      NodeContext([SessionStrategy("GENERATIVE", 1, 1, "CENTER", TRUE, <<>>)
                      EXCEPT !.generativePrompt = "add clouds"], "") }

ConfirmNext ==
    \/ \E i \in Indices : \E ctx \in ConfirmContexts :
          RegisterResolved("analyst", SourceOut(i), ctx)
    \/ \E amount \in {0, InitialCredits} : SetCredits(amount)
    \/ \E k \in 1..MaxInstances : ConfirmGeneration(k)
    \/ Render

ConfirmSpec == NodeInit /\ [][ConfirmNext]_vars

-----------------------------------------------------------------------------
(* Vocabulary of the properties.                                           *)

\* Every node of a layer sequence, at every depth.
RECURSIVE NodesOf(_)
NodesOf(layers) ==
    UNION {{layers[k]} \cup NodesOf(layers[k].children) : k \in 1..Len(layers)}

\* The nodes below the root level.
NestedNodesOf(layers) == UNION {NodesOf(layers[k].children) : k \in 1..Len(layers)}

IdsOf(layers) == [k \in 1..Len(layers) |-> layers[k].id]

HasPrompt(inst) ==
    inst.source.aiStrategy.present /\ inst.source.aiStrategy.generativePrompt # ""

NoGenerativeLayer(layers) == \A n \in NodesOf(layers) : n.type # "generative"

\* The instances of the last pass that produced a payload.
ReadyInstances == {instances[k] : k \in {j \in 1..Len(instances) : instances[j].hasPayload}}

\* The first override of a strategy naming a layer, as a set with at most one element.
OverrideFor(strategy, layerId) ==
    IF ~strategy.present THEN {}
    ELSE {strategy.overrides[k] : k \in {j \in 1..Len(strategy.overrides) :
              /\ strategy.overrides[j].layerId = layerId
              /\ \A m \in 1..(j - 1) : strategy.overrides[m].layerId # layerId}}

\* Where plain scaling puts a source coordinate: anchor + (c - origin) * scale.
BaselineX(inst, layer) ==
    RAdd(inst.env.anchorX,
         RMul(RSub(layer.coords.x, inst.source.originalBounds.x), inst.env.scale))

BaselineY(inst, layer) ==
    RAdd(inst.env.anchorY,
         RMul(RSub(layer.coords.y, inst.source.originalBounds.y), inst.env.scale))

-----------------------------------------------------------------------------
(* Properties of one pass (PassSpec).                                      *)

\* C1: prompt present, confirmed and userCredits > 0: requiresGeneration is
\* true, status is success, and the layer list is exactly one generative
\* layer covering the target rectangle and carrying the prompt, followed by
\* the geometrically transformed layers in source order.
C1_ApprovedGenerationPrepends ==
    \A inst \in ReadyInstances :
        (HasPrompt(inst) /\ confirmations[inst.index] /\ userCredits > 0) =>
            LET layers == inst.payload.layers
            IN  /\ inst.payload.requiresGeneration
                /\ inst.payload.status = "success"
                /\ Len(layers) = Len(inst.source.layers) + 1
                /\ layers[1].type = "generative"
                /\ layers[1].coords = inst.target.bounds
                /\ layers[1].generativePrompt = inst.source.aiStrategy.generativePrompt
                /\ Tail(layers) = StripTrace(inst.trace)
                /\ IdsOf(Tail(layers)) = IdsOf(inst.source.layers)
                /\ NoGenerativeLayer(Tail(layers))

C1_Witness ==
    \E inst \in ReadyInstances :
        /\ HasPrompt(inst) /\ confirmations[inst.index] /\ userCredits > 0
        /\ inst.payload.requiresGeneration
        /\ Len(inst.payload.layers) = 3

\* C2: prompt present and not confirmed: explicit intent, or a scale strictly
\* above 2, gives awaiting_confirmation with requiresGeneration false and no
\* generative layer; a scale of exactly 2 without explicit intent does not.
C2_UnconfirmedAwaits ==
    \A inst \in ReadyInstances :
        (HasPrompt(inst) /\ ~confirmations[inst.index]) =>
            LET st == inst.source.aiStrategy
            IN  /\ (st.isExplicitIntent \/ RLt(R(2), st.suggestedScale)) =>
                      /\ inst.payload.status = "awaiting_confirmation"
                      /\ ~inst.payload.requiresGeneration
                      /\ NoGenerativeLayer(inst.payload.layers)
                /\ (~st.isExplicitIntent /\ st.suggestedScale = R(2)) =>
                      inst.payload.status # "awaiting_confirmation"

C2_Witness ==
    \E inst \in ReadyInstances :
        /\ HasPrompt(inst) /\ ~confirmations[inst.index]
        /\ ~inst.source.aiStrategy.isExplicitIntent
        /\ RLt(R(2), inst.source.aiStrategy.suggestedScale)
        /\ inst.payload.status = "awaiting_confirmation"

\* C3: a pass that evaluates a confirmed instance with a non-empty prompt
\* while the balance is 0 gives the payload the status 'error'.
C3_ConfirmedWithoutCreditsIsError ==
    \A inst \in ReadyInstances :
        (HasPrompt(inst) /\ inst.payload.isConfirmed /\ inst.credits = 0) =>
            inst.payload.status = "error"

\* C4: no strategy, or a strategy without a prompt: status is success,
\* requiresGeneration is false and there is no generative layer, whatever the
\* confirmation flag and the balance.
C4_NoPromptNoGate ==
    \A inst \in ReadyInstances :
        ~HasPrompt(inst) =>
            /\ inst.payload.status = "success"
            /\ ~inst.payload.requiresGeneration
            /\ NoGenerativeLayer(inst.payload.layers)

C4_Witness ==
    \E inst \in ReadyInstances :
        /\ inst.source.aiStrategy.present /\ ~HasPrompt(inst)
        /\ inst.source.aiStrategy.isExplicitIntent
        /\ RLt(R(2), inst.source.aiStrategy.suggestedScale)
        /\ confirmations[inst.index] /\ userCredits > 0
        /\ inst.payload.status = "success"

\* C5: prompt present, not confirmed, implicit intent and scale <= 2: status
\* is success, requiresGeneration is false, and the layer list is exactly the
\* geometric transform result.
C5_ImplicitLowStretchFallsThrough ==
    \A inst \in ReadyInstances :
        (/\ HasPrompt(inst) /\ ~confirmations[inst.index]
         /\ ~inst.source.aiStrategy.isExplicitIntent
         /\ RLe(inst.source.aiStrategy.suggestedScale, R(2))) =>
            /\ inst.payload.status = "success"
            /\ ~inst.payload.requiresGeneration
            /\ NoGenerativeLayer(inst.payload.layers)
            /\ inst.payload.layers = StripTrace(inst.trace)
            /\ IdsOf(inst.payload.layers) = IdsOf(inst.source.layers)

C5_Witness ==
    \E inst \in ReadyInstances :
        /\ HasPrompt(inst) /\ ~confirmations[inst.index]
        /\ ~inst.source.aiStrategy.isExplicitIntent
        /\ inst.source.aiStrategy.suggestedScale = R(2)
        /\ userCredits > 0
        /\ inst.payload.status = "success"

\* C6: every transformed layer, at every depth, ends with
\* targetY - p*targetH <= y <= targetY + targetH + p*targetH.
C6_ClampedY ==
    \A inst \in ReadyInstances :
        LET t == inst.target.bounds
            bleedY == RMul(bleedPercent, t.h)
        IN  \A n \in NodesOf(inst.payload.layers) :
               /\ RLe(RSub(t.y, bleedY), n.coords.y)
               /\ RLe(n.coords.y, RAdd(RAdd(t.y, t.h), bleedY))
               /\ n.transform.offsetY = n.coords.y

\* A nested layer that the clamp pulled up from below the range, and another
\* layer that it pushed down from above it.
C6_Witness ==
    \E inst \in ReadyInstances :
        LET t == inst.target.bounds
            bleedY == RMul(bleedPercent, t.h)
        IN  /\ \E n \in NestedNodesOf(inst.trace) :
                  /\ RLt(RAdd(RAdd(t.y, t.h), bleedY), n.preY)
                  /\ n.coords.y = RAdd(RAdd(t.y, t.h), bleedY)
            /\ \E n \in NodesOf(inst.trace) :
                  /\ RLt(n.preY, RSub(t.y, bleedY))
                  /\ n.coords.y = RSub(t.y, bleedY)

\* The placement rule of C7 over a source sequence and its transformed
\* sequence: an overridden layer sits at target origin + offset and hands
\* (that position - its baseline) to its children; any other layer sits at
\* its baseline + the delta handed down, and hands the same delta on.
RECURSIVE PlacedByRule(_, _, _, _, _)
PlacedByRule(inst, src, traced, deltaX, deltaY) ==
    /\ Len(traced) = Len(src)
    /\ \A k \in 1..Len(src) :
          LET ov == OverrideFor(inst.source.aiStrategy, src[k].id)
              baseX == BaselineX(inst, src[k])
              baseY == BaselineY(inst, src[k])
          IN  IF ov # {}
              THEN LET o == CHOOSE x \in ov : TRUE
                       posX == RAdd(inst.target.bounds.x, o.xOffset)
                       posY == RAdd(inst.target.bounds.y, o.yOffset)
                   IN  /\ traced[k].coords.x = posX
                       /\ traced[k].preY = posY
                       /\ PlacedByRule(inst, src[k].children, traced[k].children,
                                       RSub(posX, baseX), RSub(posY, baseY))
              ELSE /\ traced[k].coords.x = RAdd(baseX, deltaX)
                   /\ traced[k].preY = RAdd(baseY, deltaY)
                   /\ PlacedByRule(inst, src[k].children, traced[k].children,
                                   deltaX, deltaY)

\* C7: a layer with a matching override is placed (pre-clamp) at
\* (targetX + xOffset, targetY + yOffset) whatever its source coordinates, the
\* anchor and the inherited delta; each descendant without an override of its
\* own is placed at its geometric baseline plus (override position -
\* overridden layer's baseline), until another override redefines the delta.
C7_OverridePlacementAndDelta ==
    \A inst \in ReadyInstances :
        PlacedByRule(inst, inst.source.layers, inst.trace, R(0), R(0))

\* Root g and grandchild b are overridden, child a is not: a is displaced
\* from its baseline by g's delta, and b sits where its own override says.
C7_Witness ==
    \E inst \in ReadyInstances :
        LET st == inst.source.aiStrategy
            g == inst.trace[1]
        IN  /\ g.id = "g" /\ g.hasChildren
            /\ OverrideFor(st, "g") # {} /\ OverrideFor(st, "a") = {}
            /\ OverrideFor(st, "b") # {}
            /\ g.children[1].id = "a"
            /\ g.children[1].coords.x # BaselineX(inst, inst.source.layers[1].children[1])
            /\ g.children[1].children[1].id = "b"
            /\ g.children[1].children[1].coords.x = RAdd(inst.target.bounds.x, R(-3))

\* C8: without a strategy the scale is min(targetW/sourceW, targetH/sourceH)
\* (it fits both axes and is tight on one), and a root layer equal to the
\* source rectangle is centred on both axes inside the target.
C8_DefaultScaleCentres ==
    \A inst \in ReadyInstances :
        ~inst.source.aiStrategy.present =>
            LET sr == inst.source.originalBounds
                t == inst.target.bounds
                sc == inst.payload.scaleFactor
                scaledW == RMul(sr.w, sc)
                scaledH == RMul(sr.h, sc)
            IN  /\ sc \in {RDiv(t.w, sr.w), RDiv(t.h, sr.h)}
                /\ RLe(sc, RDiv(t.w, sr.w)) /\ RLe(sc, RDiv(t.h, sr.h))
                /\ RLe(scaledW, t.w) /\ RLe(scaledH, t.h)
                /\ \A k \in 1..Len(inst.source.layers) :
                      inst.source.layers[k].coords = sr =>
                          LET c == inst.payload.layers[k].coords
                          IN  /\ c.x = RAdd(t.x, RDiv(RSub(t.w, scaledW), R(2)))
                              /\ c.y = RAdd(t.y, RDiv(RSub(t.h, scaledH), R(2)))
                              /\ c.w = scaledW /\ c.h = scaledH
                              /\ RLe(t.x, c.x) /\ RLe(RAdd(c.x, c.w), RAdd(t.x, t.w))
                              /\ RLe(t.y, c.y) /\ RLe(RAdd(c.y, c.h), RAdd(t.y, t.h))

C8_Witness ==
    \E inst \in ReadyInstances :
        /\ ~inst.source.aiStrategy.present
        /\ inst.source.originalBounds = Rect(0, 0, 100, 100)
        /\ inst.target.bounds = Rect(0, 0, 50, 200)
        /\ inst.source.layers[1].coords = inst.source.originalBounds
        /\ inst.payload.scaleFactor = Rat(1, 2)
        /\ inst.payload.layers[1].coords.y = R(75)

\* C9: with a strategy the scale is suggestedScale; anchorY is targetY for
\* TOP, targetY + targetH - sourceH*scale for BOTTOM and the centred value
\* otherwise; anchorX is the centred value for every anchor.  A root layer
\* equal to the source rectangle, without override, is placed at the anchor.
C9_StrategyScaleAndAnchor ==
    \A inst \in ReadyInstances :
        inst.source.aiStrategy.present =>
            LET st == inst.source.aiStrategy
                sr == inst.source.originalBounds
                t == inst.target.bounds
                sc == st.suggestedScale
                scaledW == RMul(sr.w, sc)
                scaledH == RMul(sr.h, sc)
                expectedY == CASE st.anchor = "TOP" -> t.y
                               [] st.anchor = "BOTTOM" -> RSub(RAdd(t.y, t.h), scaledH)
                               [] OTHER -> RAdd(t.y, RDiv(RSub(t.h, scaledH), R(2)))
                expectedX == RAdd(t.x, RDiv(RSub(t.w, scaledW), R(2)))
            IN  /\ inst.payload.scaleFactor = sc
                /\ inst.env.scale = sc
                /\ inst.env.anchorY = expectedY
                /\ inst.env.anchorX = expectedX
                /\ \A k \in 1..Len(inst.source.layers) :
                      (/\ inst.source.layers[k].coords = sr
                       /\ OverrideFor(st, inst.source.layers[k].id) = {}) =>
                          /\ inst.trace[k].coords.x = expectedX
                          /\ inst.trace[k].preY = expectedY

\* Anchor BOTTOM with a suggested scale that is not the min-fit ratio and
\* overflows the target's height.
C9_Witness ==
    \E inst \in ReadyInstances :
        LET st == inst.source.aiStrategy
            sr == inst.source.originalBounds
            t == inst.target.bounds
        IN  /\ st.present /\ st.anchor = "BOTTOM"
            /\ st.suggestedScale # RMin(RDiv(t.w, sr.w), RDiv(t.h, sr.h))
            /\ RLt(t.h, RMul(sr.h, st.suggestedScale))
            /\ inst.source.layers[1].coords = sr
            /\ OverrideFor(st, inst.source.layers[1].id) = {}
            /\ RLt(inst.trace[1].preY, t.y)

\* The (source layer, transformed layer) pairs that no override moves: neither
\* the layer nor any of its ancestors has a matching override.
RECURSIVE UnmovedPairs(_, _, _)
UnmovedPairs(strategy, src, traced) ==
    UNION { IF OverrideFor(strategy, src[k].id) # {} THEN {}
            ELSE {<<src[k], traced[k]>>}
                 \cup UnmovedPairs(strategy, src[k].children, traced[k].children)
            : k \in 1..Len(src) }

-----------------------------------------------------------------------------
(* The resolver.                                                           *)

\* The edge the pass reads for an input handle, as a set with at most one
\* element: the first edge drawn to the handle.
EdgeTo(handleId) ==
    {edges[k] : k \in {j \in 1..Len(edges) :
         /\ edges[j].targetHandle = handleId
         /\ \A m \in 1..(j - 1) : edges[m].targetHandle # handleId}}

\* The containers the target edge of an instance points at, <<>> when the
\* template is not registered.
ContainersAt(edge) ==
    IF edge.source \in DOMAIN templateRegistry
    THEN templateRegistry[edge.source].containers ELSE <<>>

\* The positions of the containers with a given name.
Named(containers, name) == {j \in 1..Len(containers) : containers[j].name = name}

Lowest(S) == CHOOSE j \in S : \A m \in S : j <= m

\* The container the rules (a) to (d) select, tried in that order, 0 when
\* none selects one.
RuleChoice(containers, handle) ==
    IF Named(containers, handle) # {} THEN Lowest(Named(containers, handle))
    ELSE IF handle.prefix = "slot-bounds-" /\ Named(containers, Str("", handle.rest)) # {}
         THEN Lowest(Named(containers, Str("", handle.rest)))
    ELSE IF handle.prefix = "target-out-" /\ handle.rest \in {"0", "1", "2", "3"}
            /\ \E n \in 0..(Len(containers) - 1) :
                  <<handle.rest, n>> \in {<<"0", 0>>, <<"1", 1>>, <<"2", 2>>, <<"3", 3>>}
         THEN 1 + CHOOSE n \in 0..(Len(containers) - 1) :
                  <<handle.rest, n>> \in {<<"0", 0>>, <<"1", 1>>, <<"2", 2>>, <<"3", 3>>}
    ELSE IF Len(containers) = 1 THEN 1
    ELSE 0

\* C11: the target of an instance is the container that the first matching
\* rule of (a) exact name, (b) 'slot-bounds-' remainder, (c) 'target-out-<n>'
\* index, (d) only container selects, and is not ready when none matches; a
\* handle 'target-out-k' that is also a container's name selects that container.
C11_FirstMatchingRuleSelects ==
    \A k \in 1..Len(instances) :
        \A edge \in EdgeTo(TargetHandleId(instances[k].index)) :
            (edge.sourceHandle # EmptyStr /\ edge.source \in DOMAIN templateRegistry) =>
                LET cs == ContainersAt(edge)
                    choice == RuleChoice(cs, edge.sourceHandle)
                IN  /\ choice = 0 => ~instances[k].target.ready
                    /\ choice # 0 => /\ instances[k].target.ready
                                     /\ instances[k].target.bounds = cs[choice].bounds
                    /\ (edge.sourceHandle.prefix = "target-out-"
                        /\ Named(cs, edge.sourceHandle) # {}) =>
                          instances[k].target.bounds =
                             cs[Lowest(Named(cs, edge.sourceHandle))].bounds

\* The handle 'target-out-1' names the first container while the container at
\* index 1 is another one: the first is selected.
C11_Witness ==
    /\ Len(instances) = 1
    /\ \E edge \in EdgeTo(TargetHandleId(0)) :
          /\ edge.sourceHandle = Str("target-out-", "1")
          /\ edge.source \in DOMAIN templateRegistry
          /\ Len(ContainersAt(edge)) = 2
          /\ ContainersAt(edge)[1].name = Str("target-out-", "1")
          /\ instances[1].target.ready
          /\ instances[1].target.bounds = ContainersAt(edge)[1].bounds
          /\ instances[1].target.bounds # ContainersAt(edge)[2].bounds

\* C12: a resolved target is exposed, in the instance and in
\* payload.targetContainer, under the container's originalName when it has
\* one and under its name otherwise, whichever rule found the container.
C12_OriginalNamePreferred ==
    \A k \in 1..Len(instances) :
        \A edge \in EdgeTo(TargetHandleId(instances[k].index)) :
            instances[k].target.ready =>
                \E j \in 1..Len(ContainersAt(edge)) :
                    LET c == ContainersAt(edge)[j]
                        exposed == IF c.originalName # EmptyStr THEN c.originalName ELSE c.name
                    IN  /\ c.bounds = instances[k].target.bounds
                        /\ instances[k].target.name = exposed
                        /\ instances[k].hasPayload =>
                              instances[k].payload.targetContainer = exposed

\* A container found by the index rule is exposed under its originalName, and
\* one found by the only-container rule under its raw name.
C12_Witness ==
    /\ Len(instances) = 1
    /\ instances[1].hasPayload
    /\ \E edge \in EdgeTo(TargetHandleId(0)) :
          \/ /\ edge.sourceHandle = Str("target-out-", "2")
             /\ Len(ContainersAt(edge)) = 3
             /\ instances[1].payload.targetContainer = Str("", "Footer")
          \/ /\ edge.sourceHandle = Str("", "NONE")
             /\ Len(ContainersAt(edge)) = 1
             /\ ContainersAt(edge)[1].originalName = EmptyStr
             /\ instances[1].payload.targetContainer = Str("", "BG")

\* The source side of an instance is wired to a registered context.
SourceWired(i) ==
    \E edge \in EdgeTo(SourceHandleId(i)) :
        /\ edge.sourceHandle # EmptyStr
        /\ edge.source \in DOMAIN resolvedRegistry
        /\ edge.sourceHandle \in DOMAIN resolvedRegistry[edge.source]

\* The target side of an instance is wired to a registered template in which
\* a container matches.
TargetWired(i) ==
    \E edge \in EdgeTo(TargetHandleId(i)) :
        /\ edge.sourceHandle # EmptyStr
        /\ edge.source \in DOMAIN templateRegistry
        /\ RuleChoice(ContainersAt(edge), edge.sourceHandle) # 0

\* The payload registered for an instance, as a set with at most one element.
RegisteredFor(i) ==
    IF id \in DOMAIN payloadRegistry /\ ResultHandleId(i) \in DOMAIN payloadRegistry[id]
    THEN {payloadRegistry[id][ResultHandleId(i)]} ELSE {}

\* C13: the pass gives an instance a payload exactly when its source and its
\* target are both ready; an instance with a missing edge, a missing registry
\* entry or no matching container gets payload = null and nothing is
\* registered for its handle.  The pass is defined for every such wiring.
C13_NotReadyNoPayload ==
    \A k \in 1..Len(instances) :
        LET inst == instances[k]
        IN  /\ inst.source.ready <=> SourceWired(inst.index)
            /\ inst.target.ready <=> TargetWired(inst.index)
            /\ inst.hasPayload <=> (SourceWired(inst.index) /\ TargetWired(inst.index))
            /\ inst.hasPayload => RegisteredFor(inst.index) = {inst.payload}
            /\ ~inst.hasPayload => /\ inst.payload = NoPayload
                                   /\ RegisteredFor(inst.index) = {}

\* The source is ready and no container of a two-container template matches
\* the handle: no payload, nothing registered.
C13_Witness ==
    /\ Len(instances) = 1
    /\ instances[1].source.ready /\ ~instances[1].target.ready
    /\ \E edge \in EdgeTo(TargetHandleId(0)) :
          /\ edge.sourceHandle = Str("target-out-", "3")
          /\ Len(ContainersAt(edge)) = 2
    /\ ~instances[1].hasPayload
    /\ payloadRegistry = EmptyRecord

-----------------------------------------------------------------------------
(* Preview synthesis.                                                      *)

\* C18: a draft that returns after the instance lost its prompt or stopped
\* being ready is discarded: its url is the previewUrl of no payload produced
\* or registered afterwards.
C18_StaleDraftDiscarded ==
    /\ \A inst \in ReadyInstances : inst.payload.previewUrl # "stale-draft"
    /\ \A i \in Indices : \A payload \in RegisteredFor(i) :
          payload.previewUrl # "stale-draft"

-----------------------------------------------------------------------------
(* Independence of the instances.                                          *)

\* A step in which the node rendered (only a render resets `pending`, writes
\* `instances` or registers payloads).
RenderStep ==
    \/ pending' < pending
    \/ instances' # instances
    \/ payloadRegistry' # payloadRegistry

\* The inputs of the node with those of every instance but i blanked: the
\* edges of the others removed, the resolved contexts the others read
\* removed, their confirmations, previews and in-flight flags cleared.
OwnEdges(i) ==
    LET IsOwn(e) == e.targetHandle \in {SourceHandleId(i), TargetHandleId(i)}
    IN  SelectSeq(edges, IsOwn)

OwnResolved(i) ==
    [n \in DOMAIN resolvedRegistry |->
        [h \in {g \in DOMAIN resolvedRegistry[n] :
                   \E k \in 1..Len(edges) :
                      /\ edges[k].targetHandle = SourceHandleId(i)
                      /\ edges[k].source = n /\ edges[k].sourceHandle = g} |->
            resolvedRegistry[n][h]]]

OwnFlags(flags, i) == [j \in DOMAIN flags |-> flags[j] /\ j = i]

OwnPreviews(i) == [j \in DOMAIN previews |-> IF j = i THEN previews[j] ELSE ""]

\* What the pass yields for instance i when it is alone on the node.
Alone(i) ==
    ComputeInstance(i, OwnEdges(i), OwnResolved(i), templateRegistry,
                    OwnFlags(confirmations, i), userCredits, OwnPreviews(i), bleedPercent)

\* C14: in every render the payload produced and registered for instance i,
\* and whether a draft is started for it, are what they would be with the
\* edges, resolved source, confirmation, preview and in-flight flag of every
\* other instance blanked; so no state of another instance (not ready,
\* awaiting, failed draft) keeps instance i from its payload.
C14_InstancesIndependent ==
    [][RenderStep =>
        \A k \in 1..Len(instances') :
            \E alone \in {Alone(k - 1)} :
                /\ instances'[k].index = k - 1
                /\ instances'[k].hasPayload = alone.hasPayload
                /\ instances'[k].payload = alone.payload
                /\ alone.hasPayload =>
                      /\ id \in DOMAIN payloadRegistry'
                      /\ ResultHandleId(k - 1) \in DOMAIN payloadRegistry'[id]
                      /\ payloadRegistry'[id][ResultHandleId(k - 1)] = alone.payload
                /\ (draftRequests'[k - 1] > draftRequests[k - 1]) <=>
                      NeedsDraft(alone, OwnFlags(isGeneratingPreview, k - 1))]_vars

\* The second instance awaits confirmation after a failed draft, or is not
\* ready at all, while the first one has its generation approved and its
\* payload registered.
C14_Witness ==
    /\ Len(instances) = 2
    /\ instances[1].hasPayload /\ instances[1].payload.requiresGeneration
    /\ RegisteredFor(0) = {instances[1].payload}
    /\ instances[2].hasPayload
    /\ instances[2].payload.status = "awaiting_confirmation"
    /\ failedDrafts[1] > 0 /\ previews[1] = ""

-----------------------------------------------------------------------------
(* Idempotence of the pass.                                                *)

C16_DraftStartedOnlyWhenNeeded ==
    [][\A i \in Indices :
          draftRequests'[i] > draftRequests[i] =>
              /\ ~isGeneratingPreview[i]
              /\ previews[i] = ""
              /\ \E k \in 1..Len(instances') :
                    /\ instances'[k].index = i
                    /\ instances'[k].hasPayload
                    /\ instances'[k].payload.status = "awaiting_confirmation"
                    /\ HasPrompt(instances'[k])
                    /\ instances'[k].source.previewUrl = ""
                    /\ instances'[k].payload.previewUrl = ""]_vars

\* A first draft is in flight for an awaiting instance that has no preview.
C16_Witness ==
    /\ Len(instances) = 2
    /\ draftRequests[0] = 1 /\ isGeneratingPreview[0] /\ failedDrafts[0] = 0
    /\ instances[1].hasPayload
    /\ instances[1].payload.status = "awaiting_confirmation"
    /\ instances[1].payload.previewUrl = ""
    /\ previews[0] = ""

\* C17: at most one draft request is in flight per instance index, and then
\* the in-flight flag of that index is set.
C17_OneDraftInFlight ==
    \A i \in Indices :
        /\ draftRequests[i] <= 1
        /\ draftRequests[i] = 1 => isGeneratingPreview[i]

\* Drafts are in flight for both instances and the node has rendered again
\* after the balance fell to 0.
C17_Witness ==
    /\ Len(instances) = 2
    /\ draftRequests[0] = 1 /\ draftRequests[1] = 1
    /\ userCredits = 0 /\ pending = 0
    /\ instances[1].credits = 0
    /\ instances[1].payload.status = "awaiting_confirmation"
    /\ instances[2].payload.status = "awaiting_confirmation"

\* C19: every draft that was started clears the in-flight flag of its
\* instance again; one that ends without an image leaves the local preview
\* of its index as it was, and no payload ever has the status 'error'.
C19_DraftAlwaysClearsFlag ==
    /\ \A i \in Indices : isGeneratingPreview[i] ~> ~isGeneratingPreview[i]
    /\ [][\A i \in Indices :
             failedDrafts'[i] > failedDrafts[i] =>
                 /\ previews'[i] = previews[i]
                 /\ ~isGeneratingPreview'[i]
                 /\ instances' = instances]_vars
    /\ [](\A k \in 1..Len(instances) : instances[k].payload.status # "error")

\* A draft ended without an image: the flag is clear, there is no local
\* preview and the instance is still shown as awaiting confirmation.
C19_Witness ==
    /\ Len(instances) = 2
    /\ failedDrafts[0] = 1 /\ draftRequests[0] = 0
    /\ ~isGeneratingPreview[0] /\ previews[0] = ""
    /\ instances[1].payload.status = "awaiting_confirmation"

\* C20: a pass that finds an instance awaiting confirmation with a prompt, no
\* preview and no draft in flight starts a draft for it, whatever came
\* before; after a draft that ended without an image the next pass therefore
\* starts another one, with no click in between, time after time.
C20_FailedDraftRetried ==
    [][RenderStep =>
        \A k \in 1..Len(instances') :
            ( /\ instances'[k].hasPayload
              /\ instances'[k].payload.status = "awaiting_confirmation"
              /\ HasPrompt(instances'[k])
              /\ instances'[k].payload.previewUrl = ""
              /\ ~isGeneratingPreview[instances'[k].index] ) =>
                /\ draftRequests'[instances'[k].index] = draftRequests[instances'[k].index] + 1
                /\ isGeneratingPreview'[instances'[k].index]]_vars

\* The third draft of an instance is in flight after two that ended without an
\* image, and nothing was ever confirmed.
C20_Witness ==
    /\ Len(instances) = 2
    /\ failedDrafts[0] = 2 /\ draftRequests[0] = 1 /\ isGeneratingPreview[0]
    /\ previews[0] = ""
    /\ \A i \in Indices : ~confirmations[i]
    /\ instances[1].payload.status = "awaiting_confirmation"

-----------------------------------------------------------------------------
(* The frame of a returned draft.                                          *)

\* A step in which the draft of instance i returned with an image.
DraftSuccessStep(i) ==
    /\ draftRequests'[i] < draftRequests[i]
    /\ failedDrafts'[i] = failedDrafts[i]

\* What a pass over the current inputs yields, and over those after the step.
PassNow ==
    ComputeInstances(instanceCount, edges, resolvedRegistry, templateRegistry,
                     confirmations, userCredits, previews, bleedPercent)

PassAfter ==
    ComputeInstances(instanceCount', edges', resolvedRegistry', templateRegistry',
                     confirmations', userCredits', previews', bleedPercent')

\* C21: the return of a draft with an image for instance i writes previews[i]
\* and clears the in-flight flag of i, nothing else; a pass over the inputs
\* after it yields for instance i the payload of a pass over the inputs before
\* it up to previewUrl, and for every other instance the same payload.
C21_DraftChangesOnlyPreview ==
    [][\A i \in Indices :
          DraftSuccessStep(i) =>
              /\ \A j \in Indices \ {i} :
                    /\ previews'[j] = previews[j]
                    /\ isGeneratingPreview'[j] = isGeneratingPreview[j]
              /\ ~isGeneratingPreview'[i]
              /\ UNCHANGED <<templateRegistry, resolvedRegistry, payloadRegistry,
                             userCredits, edges, instanceCount, confirmations,
                             instances>>
              /\ \E before \in {PassNow} : \E after \in {PassAfter} :
                    /\ Len(after) = Len(before)
                    /\ \A k \in 1..Len(before) :
                          /\ after[k].hasPayload = before[k].hasPayload
                          /\ IF before[k].index = i
                             THEN [after[k].payload EXCEPT !.previewUrl = ""]
                                     = [before[k].payload EXCEPT !.previewUrl = ""]
                             ELSE after[k].payload = before[k].payload]_vars

\* The pass after a returned draft: the payload of the first instance carries
\* the draft and still awaits confirmation, beside a second payload.
C21_Witness ==
    /\ Len(instances) = 2
    /\ previews[0] = "draft" /\ ~isGeneratingPreview[0] /\ pending = 0
    /\ instances[1].hasPayload
    /\ instances[1].payload.previewUrl = "draft"
    /\ instances[1].payload.status = "awaiting_confirmation"
    /\ instances[2].hasPayload

-----------------------------------------------------------------------------
(* The credit balance.                                                     *)

\* C22: consumeCredit lowers the balance only when the balance it is applied
\* to covers the amount, so the balance, set and consumed through the store
\* from a non-negative start, is never negative, however many calls are made
\* between two renders.
C22_BalanceNeverNegative == userCredits >= 0

-----------------------------------------------------------------------------
(* The preview of a payload.                                               *)

\* The previewUrl of the context the store holds for the source of instance i
\* ("" when the context has none).
UpstreamPreview(i) ==
    LET e == edges[FindEdge(edges, SourceHandleId(i))]
    IN  resolvedRegistry[e.source][e.sourceHandle].previewUrl

\* C23: in every render the previewUrl of a payload is the previewUrl of the
\* source context when that has one, otherwise the local draft stored for the
\* instance index, otherwise absent; a local draft never takes the place of a
\* preview supplied upstream.
C23_UpstreamPreviewPreferred ==
    [][RenderStep =>
        \A k \in 1..Len(instances') :
            instances'[k].hasPayload =>
                instances'[k].payload.previewUrl =
                    IF UpstreamPreview(instances'[k].index) # ""
                    THEN UpstreamPreview(instances'[k].index)
                    ELSE previews[instances'[k].index]]_vars

\* The first payload shows the analyst's preview although a local draft is
\* stored for it, the second one shows its local draft.
C23_Witness ==
    /\ Len(instances) = 2
    /\ instances[1].hasPayload /\ instances[1].payload.previewUrl = "upstream"
    /\ previews[0] = "draft"
    /\ instances[2].hasPayload /\ instances[2].payload.previewUrl = "draft"

-----------------------------------------------------------------------------
(* The draft refresh notification.                                         *)

\* The payload stored for instance i differs from `payload` in previewUrl and
\* in nothing else.
OnlyPreviewChanges(i, payload) ==
    /\ RegisteredFor(i) # {}
    /\ \A stored \in RegisteredFor(i) :
          /\ stored.previewUrl # payload.previewUrl
          /\ [stored EXCEPT !.previewUrl = ""] = [payload EXCEPT !.previewUrl = ""]

\* C24: a render dispatches the DRAFT_REFRESH event for a result handle
\* exactly when the payload it registers there replaces a stored one from
\* which it differs in previewUrl only; a first registration, an unchanged
\* payload and a payload that also differs in layers, scaleFactor, metrics or
\* container names dispatch none.
C24_RefreshOnlyForPreviewChange ==
    [][RenderStep =>
        \A k \in 1..Len(instances') :
            instances'[k].hasPayload =>
                ( ResultHandleId(instances'[k].index) \in refreshEvents'
                  <=> OnlyPreviewChanges(instances'[k].index, instances'[k].payload) )]_vars

-----------------------------------------------------------------------------
(* Overrides that name no layer.                                           *)

\* The positions of the overrides of a ready instance whose layerId is the
\* id of no layer of the source tree, at any depth.
UnmatchedOverrides(inst) ==
    IF inst.source.aiStrategy.present
    THEN {k \in 1..Len(inst.source.aiStrategy.overrides) :
            \A node \in NodesOf(inst.source.layers) :
                node.id # inst.source.aiStrategy.overrides[k].layerId}
    ELSE {}

\* The source of an instance with override k taken out of its strategy.
WithoutOverride(inst, k) ==
    LET ov == inst.source.aiStrategy.overrides
    IN  [inst.source EXCEPT
            !.aiStrategy.overrides = SubSeq(ov, 1, k - 1) \o SubSeq(ov, k + 1, Len(ov))]

\* C25: an override naming no layer of the source tree changes nothing: the
\* pass is defined, and its payload (layers, scale, status and all) is the
\* one the same inputs yield with that override taken out of the strategy.
C25_UnmatchedOverrideIgnored ==
    \A inst \in ReadyInstances :
        \A k \in UnmatchedOverrides(inst) :
            inst.payload = ComputePayload(WithoutOverride(inst, k), inst.target,
                                          inst.payload.isConfirmed, inst.credits,
                                          inst.localPreview, bleedPercent)

\* A strategy with an override that names a layer of the tree and moves it,
\* and one that names none.
C25_Witness ==
    \E inst \in ReadyInstances :
        /\ UnmatchedOverrides(inst) # {}
        /\ \E k \in 1..Len(inst.source.aiStrategy.overrides) :
              k \notin UnmatchedOverrides(inst)
        /\ inst.payload.layers #
              ComputePayload([inst.source EXCEPT !.aiStrategy.overrides = <<>>],
                             inst.target, inst.payload.isConfirmed, inst.credits,
                             inst.localPreview, bleedPercent).layers

-----------------------------------------------------------------------------
(* The shape of the transformed tree.                                      *)

\* Two layer sequences have the same shape: as many nodes, with the same
\* identifiers in the same order, a node with children on one side exactly
\* when on the other, and the same again below every node.
RECURSIVE SameShape(_, _)
SameShape(src, out) ==
    /\ Len(out) = Len(src)
    /\ \A k \in 1..Len(src) :
          /\ out[k].id = src[k].id
          /\ out[k].hasChildren = src[k].hasChildren
          /\ SameShape(src[k].children, out[k].children)

\* The layers of a payload without the generative layer the gate prepends.
TransformedPart(payload) ==
    IF payload.requiresGeneration /\ payload.layers # <<>>
       /\ payload.layers[1].type = "generative"
    THEN Tail(payload.layers)
    ELSE payload.layers

\* C26: every payload of the pass has status success or awaiting_confirmation
\* and carries the whole source tree transformed: apart from the generative
\* layer at index 0 its layers have the shape of the source layers, node for
\* node at every depth, and every node carries its transform (the scale it
\* was sized with and the position it was given).
C26_TreeShapePreserved ==
    \A inst \in ReadyInstances :
        /\ inst.payload.status \in {"success", "awaiting_confirmation"}
        /\ SameShape(inst.source.layers, TransformedPart(inst.payload))
        /\ \A node \in NodesOf(TransformedPart(inst.payload)) :
              /\ node.type # "generative"
              /\ node.transform.offsetX = node.coords.x
              /\ node.transform.offsetY = node.coords.y

\* A payload with the generative layer in front of a tree with a nested
\* group, a leaf and a group whose children array is empty.
C26_Witness ==
    \E inst \in ReadyInstances :
        /\ inst.payload.requiresGeneration
        /\ Len(inst.payload.layers) = Len(inst.source.layers) + 1
        /\ \E node \in NodesOf(inst.source.layers) : node.hasChildren /\ node.children = <<>>
        /\ \E node \in NodesOf(inst.source.layers) : node.hasChildren /\ node.children # <<>>

-----------------------------------------------------------------------------
(* End-to-end scenarios.                                                   *)

\* The root layers of a ready instance that cover the source rectangle and
\* that no override names, as positions in the layer sequence.
PlainRoots(inst) ==
    {k \in 1..Len(inst.source.layers) :
        /\ inst.source.layers[k].coords = inst.source.originalBounds
        /\ OverrideFor(inst.source.aiStrategy, inst.source.layers[k].id) = {}}

\* C27: strategy with suggestedScale 1 and anchor BOTTOM, source {0,0,100,100},
\* target {0,0,100,50}: the pass scale is 1, anchorX is 0, anchorY is -50, and
\* a root layer with the source bounds, at y = -50 before the clamp, ends at
\* y = -(50 * MAX_BOUNDARY_VIOLATION_PERCENT) with x = 0 and size 100 x 100.
C27_BottomAnchorScenario ==
    \A inst \in ReadyInstances :
        ( /\ inst.source.aiStrategy.present
          /\ inst.source.aiStrategy.suggestedScale = R(1)
          /\ inst.source.aiStrategy.anchor = "BOTTOM"
          /\ inst.source.originalBounds = Rect(0, 0, 100, 100)
          /\ inst.target.bounds = Rect(0, 0, 100, 50) ) =>
            /\ inst.payload.scaleFactor = R(1)
            /\ inst.env.anchorX = R(0)
            /\ inst.env.anchorY = R(-50)
            /\ \A k \in PlainRoots(inst) :
                  /\ inst.trace[k].preY = R(-50)
                  /\ TransformedPart(inst.payload)[k].coords =
                        [x |-> R(0), y |-> RSub(R(0), RMul(R(50), bleedPercent)),
                         w |-> R(100), h |-> R(100)]

\* The scenario with the root group g covering the source rectangle.
C27_Witness ==
    \E inst \in ReadyInstances :
        /\ inst.source.aiStrategy.present
        /\ inst.source.aiStrategy.suggestedScale = R(1)
        /\ inst.source.aiStrategy.anchor = "BOTTOM"
        /\ inst.source.originalBounds = Rect(0, 0, 100, 100)
        /\ inst.target.bounds = Rect(0, 0, 100, 50)
        /\ 1 \in PlainRoots(inst)
        /\ bleedPercent = Rat(1, 20)
        /\ inst.payload.layers[1].coords.y = Rat(-5, 2)

\* The scenario without a strategy: source {0,0,100,100}, target {0,0,50,200}.
NoStrategyScenario(inst) ==
    /\ ~inst.source.aiStrategy.present
    /\ inst.source.originalBounds = Rect(0, 0, 100, 100)
    /\ inst.target.bounds = Rect(0, 0, 50, 200)

\* C28 as stated: in the scenario scaleFactor is 0.5, status is success,
\* requiresGeneration is false, and a root layer with the source bounds is
\* transformed to x = 0, y = 50, w = 50, h = 50.
C28_NoStrategyScenarioAsStated ==
    \A inst \in ReadyInstances :
        NoStrategyScenario(inst) =>
            /\ inst.payload.scaleFactor = Rat(1, 2)
            /\ inst.payload.status = "success"
            /\ ~inst.payload.requiresGeneration
            /\ \A k \in PlainRoots(inst) :
                  inst.payload.layers[k].coords =
                      [x |-> R(0), y |-> R(50), w |-> R(50), h |-> R(50)]

\* C28: in the scenario scaleFactor is 0.5, status is success,
\* requiresGeneration is false, and a root layer with the source bounds is
\* transformed to x = 0, y = 75, w = 50, h = 50: the scaled height 50 is
\* centred in the target height 200, (200 - 50) / 2 = 75.
C28_NoStrategyScenario ==
    \A inst \in ReadyInstances :
        NoStrategyScenario(inst) =>
            /\ inst.payload.scaleFactor = Rat(1, 2)
            /\ inst.payload.status = "success"
            /\ ~inst.payload.requiresGeneration
            /\ \A k \in PlainRoots(inst) :
                  inst.payload.layers[k].coords =
                      [x |-> R(0), y |-> R(75), w |-> R(50), h |-> R(50)]

\* The scenario with the root group g covering the source rectangle.
C28_Witness ==
    \E inst \in ReadyInstances :
        /\ NoStrategyScenario(inst)
        /\ 1 \in PlainRoots(inst)
        /\ inst.payload.layers[1].id = "g"
        /\ inst.payload.layers[1].coords.y = R(75)

-----------------------------------------------------------------------------
(* Scale and size of the transformed layers.                               *)

\* The scale rule over a source sequence and its transformed sequence: a
\* layer is scaled on both axes by the pass scale, times the individualScale
\* of its own override when it has one, whatever its ancestors' overrides;
\* its size is its source size times that scale; the same below every layer.
RECURSIVE ScaledByRule(_, _, _)
ScaledByRule(inst, src, out) ==
    /\ Len(out) = Len(src)
    /\ \A k \in 1..Len(src) :
          LET ov == OverrideFor(inst.source.aiStrategy, src[k].id)
              layerScale == IF ov # {}
                            THEN RMul(inst.payload.scaleFactor,
                                      (CHOOSE o \in ov : TRUE).individualScale)
                            ELSE inst.payload.scaleFactor
          IN  /\ out[k].transform.scaleX = layerScale
              /\ out[k].transform.scaleY = layerScale
              /\ out[k].coords.w = RMul(src[k].coords.w, out[k].transform.scaleX)
              /\ out[k].coords.h = RMul(src[k].coords.h, out[k].transform.scaleY)
              /\ ScaledByRule(inst, src[k].children, out[k].children)

\* C29: every transformed layer has scaleX = scaleY = the pass scale,
\* multiplied by individualScale exactly when the layer itself has a matching
\* override, and size w = source w * scaleX, h = source h * scaleY; the
\* individualScale of an ancestor changes no descendant's scale or size.
C29_ScaleAndSize ==
    \A inst \in ReadyInstances :
        ScaledByRule(inst, inst.source.layers, TransformedPart(inst.payload))

\* Root g is overridden with individualScale 3/2 and grandchild b with 2,
\* child a is not overridden: a keeps the pass scale, which is not 1.
C29_Witness ==
    \E inst \in ReadyInstances :
        LET st == inst.source.aiStrategy
            g == TransformedPart(inst.payload)[1]
        IN  /\ g.id = "g" /\ g.hasChildren
            /\ inst.payload.scaleFactor # R(1)
            /\ \E o \in OverrideFor(st, "g") : o.individualScale = Rat(3, 2)
            /\ OverrideFor(st, "a") = {}
            /\ g.transform.scaleX = RMul(inst.payload.scaleFactor, Rat(3, 2))
            /\ g.children[1].id = "a"
            /\ g.children[1].transform.scaleX = inst.payload.scaleFactor
            /\ g.children[1].children[1].id = "b"
            /\ g.children[1].children[1].transform.scaleX = RMul(inst.payload.scaleFactor, R(2))

-----------------------------------------------------------------------------
(* The confirm action.                                                     *)

\* C30: a confirmation flag becomes true only by a click on the confirm
\* button, which the last render shows only for a payload that awaits
\* confirmation, is not confirmed and has a preview, with a balance above
\* zero; so in every step that sets confirmations[i], userCredits > 0 and the
\* status of instance i was awaiting_confirmation.
C30_ConfirmOnlyWithCredits ==
    [][\A i \in Indices :
          (~confirmations[i] /\ confirmations'[i]) =>
              /\ userCredits > 0
              /\ \E k \in 1..Len(instances) :
                    /\ instances[k].index = i
                    /\ instances[k].hasPayload
                    /\ instances[k].payload.status = "awaiting_confirmation"
                    /\ ~instances[k].payload.isConfirmed
                    /\ instances[k].payload.previewUrl # ""]_vars

-----------------------------------------------------------------------------
(* A GEOMETRIC strategy carries no generative intent.                      *)

\* What the store is to hold for a registered context: the context itself,
\* or for a GEOMETRIC strategy the context with no previewUrl and an empty
\* generative prompt.
Committed(context) ==
    IF context.aiStrategy.present /\ context.aiStrategy.method = "GEOMETRIC"
    THEN [container |-> context.container,
          layers |-> context.layers,
          aiStrategy |-> [present |-> TRUE,
                          method |-> "GEOMETRIC",
                          suggestedScale |-> context.aiStrategy.suggestedScale,
                          anchor |-> context.aiStrategy.anchor,
                          generativePrompt |-> "",
                          isExplicitIntent |-> context.aiStrategy.isExplicitIntent,
                          overrides |-> context.aiStrategy.overrides],
          previewUrl |-> ""]
    ELSE context

-----------------------------------------------------------------------------
(* The preview patch of the store.                                         *)

\* C32: updatePreview on a key that holds a payload whose previewUrl is not
\* the url yields the registry with that payload's previewUrl set to the url
\* and nothing else changed; on a key with no payload, or with that
\* previewUrl already, it yields the registry itself.  A step that patches
\* the payload registry (it changes an entry, no key, outside a render)
\* changes the previewUrl of one stored payload, and no other registry, nor
\* the balance, nor the node.
C32_UpdatePreviewPatchesOnlyUrl ==
    /\ [](\A nodeId \in StoreNodeIds : \A handleId \in StoreHandleIds :
            \A url \in PreviewUrls :
               \E after \in {updatePreview(payloadRegistry, nodeId, handleId, url)} :
                  IF /\ nodeId \in DOMAIN payloadRegistry
                     /\ handleId \in DOMAIN payloadRegistry[nodeId]
                     /\ payloadRegistry[nodeId][handleId].previewUrl # url
                  THEN /\ DOMAIN after = DOMAIN payloadRegistry
                       /\ \A n \in DOMAIN after :
                             /\ DOMAIN after[n] = DOMAIN payloadRegistry[n]
                             /\ \A h \in DOMAIN after[n] :
                                   IF n = nodeId /\ h = handleId
                                   THEN /\ after[n][h].previewUrl = url
                                        /\ [after[n][h] EXCEPT !.previewUrl = ""] =
                                             [payloadRegistry[n][h] EXCEPT !.previewUrl = ""]
                                   ELSE after[n][h] = payloadRegistry[n][h]
                  ELSE after = payloadRegistry)
    /\ [][(/\ payloadRegistry' # payloadRegistry
           /\ DOMAIN payloadRegistry' = DOMAIN payloadRegistry
           /\ pending' > pending) =>
             /\ UNCHANGED <<templateRegistry, resolvedRegistry, userCredits, edges,
                            instanceCount, confirmations, previews, isGeneratingPreview,
                            instances, draftRequests, failedDrafts, refreshEvents,
                            psdRegistry, analysisRegistry, globalVersion, isPro>>
             /\ \E nodeId \in StoreNodeIds : \E handleId \in StoreHandleIds :
                   \E url \in PreviewUrls :
                      /\ RegisteredFor(handleId[2]) # {}
                      /\ nodeId = id
                      /\ payloadRegistry' =
                            PutEntry(payloadRegistry, nodeId, handleId,
                                     [payloadRegistry[nodeId][handleId]
                                         EXCEPT !.previewUrl = url])]_vars

\* The payload of the first instance has been patched in the store and the
\* node has not rendered since; the second instance has no payload to patch.
C32_Witness ==
    /\ RegisteredFor(0) # {}
    /\ \A stored \in RegisteredFor(0) :
          /\ stored.previewUrl = "patched"
          /\ stored.status = "awaiting_confirmation"
    /\ Len(instances) = 2
    /\ instances[1].hasPayload /\ instances[1].payload.previewUrl # "patched"
    /\ RegisteredFor(1) = {}
    /\ pending = 1

-----------------------------------------------------------------------------
(* Consistency of the gate's outputs.                                      *)

\* The synthetic generative layers of a layer sequence, at every depth.
GenerativeNodes(layers) == {node \in NodesOf(layers) : node.type = "generative"}

\* C33: in every payload, requiresGeneration is true exactly when the
\* strategy has a non-empty prompt, the instance is confirmed and the balance
\* is above zero, and exactly when the first layer is the synthetic
\* generative layer; requiresGeneration implies status success;
\* awaiting_confirmation implies requiresGeneration false and no generative
\* layer; and there is never more than one generative layer.
C33_GateOutputsConsistent ==
    \A inst \in ReadyInstances :
        /\ inst.payload.isConfirmed = confirmations[inst.index]
        /\ inst.credits = userCredits
        /\ inst.payload.requiresGeneration <=>
              (HasPrompt(inst) /\ confirmations[inst.index] /\ userCredits > 0)
        /\ inst.payload.requiresGeneration <=>
              (inst.payload.layers # <<>> /\ inst.payload.layers[1].type = "generative")
        /\ inst.payload.requiresGeneration => inst.payload.status = "success"
        /\ inst.payload.status = "awaiting_confirmation" =>
              /\ ~inst.payload.requiresGeneration
              /\ NoGenerativeLayer(inst.payload.layers)
        /\ Cardinality(GenerativeNodes(inst.payload.layers)) <= 1

\* A confirmed instance with an explicit prompt and an empty balance: the
\* gate stays shut and the payload awaits confirmation.
C33_Witness ==
    \E inst \in ReadyInstances :
        /\ HasPrompt(inst) /\ confirmations[inst.index] /\ userCredits = 0
        /\ inst.payload.status = "awaiting_confirmation"
        /\ ~inst.payload.requiresGeneration
        /\ GenerativeNodes(inst.payload.layers) = {}

-----------------------------------------------------------------------------
(* The lifetime of a confirmation.                                         *)

\* C34: a confirmation flag that is true stays true in every step; and every
\* render gives an instance whose flag is set, whose strategy has a prompt
\* and whose balance is above zero requiresGeneration = true with a
\* generative layer carrying the prompt of that render, also when the source,
\* the strategy or the prompt have changed since the confirmation.
C34_ConfirmationOutlivesPrompt ==
    /\ [][\A i \in Indices : confirmations[i] => confirmations'[i]]_vars
    /\ [][RenderStep =>
             \A k \in 1..Len(instances') :
                 ( /\ instances'[k].hasPayload
                   /\ HasPrompt(instances'[k])
                   /\ confirmations[instances'[k].index]
                   /\ userCredits > 0 ) =>
                     /\ instances'[k].payload.requiresGeneration
                     /\ instances'[k].payload.layers[1].type = "generative"
                     /\ instances'[k].payload.layers[1].generativePrompt =
                           instances'[k].source.aiStrategy.generativePrompt]_vars

\* Generation is approved for the prompt that comes without a preview, for
\* which the confirm button was never on screen: the confirmation was given
\* for the other prompt.
C34_Witness ==
    /\ Len(instances) = 2
    /\ instances[1].hasPayload
    /\ instances[1].source.aiStrategy.generativePrompt = "add clouds"
    /\ instances[1].payload.previewUrl = ""
    /\ instances[1].payload.requiresGeneration
    /\ instances[1].payload.layers[1].generativePrompt = "add clouds"

-----------------------------------------------------------------------------
(* The node and the balance.                                               *)

\* C35: a click on the confirm button and every render, also one that
\* approves generation and prepends the generative layer, leave userCredits
\* as it was: the node reads the balance and never spends a credit.
C35_NodeNeverSpendsCredits ==
    [][(RenderStep \/ confirmations' # confirmations) =>
          userCredits' = userCredits]_vars

\* Both instances confirmed and approved by the last pass, the generative
\* layer in front, and the balance still the initial one.
C35_Witness ==
    /\ Len(instances) = 2
    /\ \A k \in 1..2 :
          /\ instances[k].hasPayload
          /\ confirmations[instances[k].index]
          /\ instances[k].payload.requiresGeneration
          /\ instances[k].payload.layers[1].type = "generative"
    /\ userCredits = InitialCredits

-----------------------------------------------------------------------------
(* Registered payloads are kept.                                           *)

RemovedFrom(before, after, nodeId) ==
    /\ DOMAIN after = DOMAIN before \ {nodeId}
    /\ \A n \in DOMAIN after : after[n] = before[n]

\* C37: a step of unregisterNode(nodeId) takes the entry of nodeId out of
\* each of the five registries (psd, template, resolved, payload, analysis),
\* keeps the entry of every other node as it was, and keeps the balance, the
\* pro flag and globalVersion; for a node with no entries the five
\* registries stay as they are.
C37_UnregisterRemovesOnlyNode ==
    [][\A nodeId \in UnmountedNodeIds :
          UnregisterNode(nodeId) =>
             /\ RemovedFrom(psdRegistry, psdRegistry', nodeId)
             /\ RemovedFrom(templateRegistry, templateRegistry', nodeId)
             /\ RemovedFrom(resolvedRegistry, resolvedRegistry', nodeId)
             /\ RemovedFrom(payloadRegistry, payloadRegistry', nodeId)
             /\ RemovedFrom(analysisRegistry, analysisRegistry', nodeId)
             /\ UNCHANGED <<userCredits, isPro, globalVersion>>
             /\ (nodeId \notin DOMAIN psdRegistry \cup DOMAIN templateRegistry
                                \cup DOMAIN resolvedRegistry \cup DOMAIN payloadRegistry
                                \cup DOMAIN analysisRegistry) =>
                   UNCHANGED <<psdRegistry, templateRegistry, resolvedRegistry,
                               payloadRegistry, analysisRegistry>>]_vars

\* The analyst, whose context the last render read, is gone from the
\* resolved and the analysis registry; the loader's document and template,
\* the wired template and the node's payloads are still there, and the pro
\* flag and globalVersion keep the values set before.
C37_Witness ==
    /\ Len(instances) = 2 /\ instances[1].source.ready
    /\ "analyst" \notin DOMAIN resolvedRegistry \cup DOMAIN analysisRegistry
    /\ "loader" \in DOMAIN psdRegistry /\ "loader" \in DOMAIN templateRegistry
    /\ "template" \in DOMAIN templateRegistry
    /\ id \in DOMAIN payloadRegistry
    /\ isPro /\ globalVersion = MaxVersion

\* Two objects have the same members with the same values, in whatever order
\* the members were added.
StructurallyEqual(a, b) ==
    IF "keys" \in DOMAIN a /\ "keys" \in DOMAIN b
    THEN /\ {a.keys[k] : k \in 1..Len(a.keys)} = {b.keys[k] : k \in 1..Len(b.keys)}
         /\ \A k \in 1..Len(a.keys) : a[a.keys[k]] = b[a.keys[k]]
    ELSE a = b

HasEntry(prev, nodeId, handleId) ==
    nodeId \in DOMAIN prev /\ handleId \in DOMAIN prev[nodeId]

\* The registry after holds the value under (nodeId, handleId) and under
\* every other key what the registry before holds there.
KeyLocalPut(prev, after, nodeId, handleId, value) ==
    /\ DOMAIN after = DOMAIN prev \cup {nodeId}
    /\ \A n \in DOMAIN prev \ {nodeId} : after[n] = prev[n]
    /\ DOMAIN after[nodeId] =
          (IF nodeId \in DOMAIN prev THEN DOMAIN prev[nodeId] ELSE {}) \cup {handleId}
    /\ \A h \in DOMAIN after[nodeId] \ {handleId} : after[nodeId][h] = prev[nodeId][h]
    /\ after[nodeId][handleId] = value

\* The template registry after holds the template under nodeId and under
\* every other node what the registry before holds there.
KeyLocalPutTemplate(prev, after, nodeId, template) ==
    /\ DOMAIN after = DOMAIN prev \cup {nodeId}
    /\ \A n \in DOMAIN prev \ {nodeId} : after[n] = prev[n]
    /\ after[nodeId] = template

\* The payloads a node offers to the store: those of the last pass, as they
\* are and with another preview.
OfferedPayloads ==
    UNION { {instances[k].payload} \cup
            {[instances[k].payload EXCEPT !.previewUrl = url] : url \in PreviewUrls} :
               k \in {j \in 1..Len(instances) : instances[j].hasPayload} }

OfferedTemplates == LoaderTemplates \cup SessionTemplates

\* Every call of the four registrations, on the registries as they are, puts
\* the value under its key and leaves every other key as it was.
RegistrationsKeyLocal ==
    /\ \A nodeId \in {"loader", "template"} : \A template \in OfferedTemplates :
          KeyLocalPutTemplate(templateRegistry,
                              registerTemplate(templateRegistry, nodeId, template),
                              nodeId, template)
    /\ \A i \in Indices : \A context \in NodeContexts(0) :
          KeyLocalPut(resolvedRegistry,
                      registerResolved(resolvedRegistry, "analyst", SourceOut(i), context),
                      "analyst", SourceOut(i), Committed(context))
    /\ \A nodeId \in StoreNodeIds : \A handleId \in StoreHandleIds :
          \A payload \in OfferedPayloads :
             KeyLocalPut(payloadRegistry,
                         registerPayload(payloadRegistry, nodeId, handleId, payload),
                         nodeId, handleId, payload)
    /\ \A nodeId \in {"analyst", "loader"} : \A handleId \in AnalysisHandleIds :
          \A strategy \in AnalysisStrategies :
             KeyLocalPut(analysisRegistry,
                         registerAnalysis(analysisRegistry, nodeId, handleId, strategy),
                         nodeId, handleId, strategy)

\* C38 as stated: registerTemplate, registerResolved, registerPayload and
\* registerAnalysis are key-local, and registering a value structurally
\* equal to the one stored under the key leaves the registry as it is and
\* queues no render.
C38_IdempotentOnStructuralEquality ==
    /\ [](/\ RegistrationsKeyLocal
          /\ \A nodeId \in {"loader", "template"} : \A template \in OfferedTemplates :
                (nodeId \in DOMAIN templateRegistry
                 /\ StructurallyEqual(templateRegistry[nodeId], template)) =>
                   registerTemplate(templateRegistry, nodeId, template) = templateRegistry
          /\ \A i \in Indices : \A context \in NodeContexts(0) :
                (HasEntry(resolvedRegistry, "analyst", SourceOut(i))
                 /\ StructurallyEqual(resolvedRegistry["analyst"][SourceOut(i)], context)) =>
                   registerResolved(resolvedRegistry, "analyst", SourceOut(i), context)
                      = resolvedRegistry
          /\ \A nodeId \in StoreNodeIds : \A handleId \in StoreHandleIds :
                \A payload \in OfferedPayloads :
                   (HasEntry(payloadRegistry, nodeId, handleId)
                    /\ StructurallyEqual(payloadRegistry[nodeId][handleId], payload)) =>
                      registerPayload(payloadRegistry, nodeId, handleId, payload)
                         = payloadRegistry
          /\ \A handleId \in AnalysisHandleIds : \A strategy \in AnalysisStrategies :
                (HasEntry(analysisRegistry, "analyst", handleId)
                 /\ StructurallyEqual(analysisRegistry["analyst"][handleId], strategy)) =>
                   registerAnalysis(analysisRegistry, "analyst", handleId, strategy)
                      = analysisRegistry)
    /\ [][/\ \A template \in LoaderTemplates :
                (/\ RegisterTemplate("loader", template)
                 /\ "loader" \in DOMAIN templateRegistry
                 /\ StructurallyEqual(templateRegistry["loader"], template)) =>
                   UNCHANGED <<templateRegistry, pending>>
          /\ \A i \in Indices : \A context \in NodeContexts(i) :
                (/\ RegisterResolved("analyst", SourceOut(i), context)
                 /\ HasEntry(resolvedRegistry, "analyst", SourceOut(i))
                 /\ StructurallyEqual(resolvedRegistry["analyst"][SourceOut(i)], context)) =>
                   UNCHANGED <<resolvedRegistry, pending>>
          /\ \A handleId \in AnalysisHandleIds : \A strategy \in AnalysisStrategies :
                (/\ RegisterAnalysis("analyst", handleId, strategy)
                 /\ HasEntry(analysisRegistry, "analyst", handleId)
                 /\ StructurallyEqual(analysisRegistry["analyst"][handleId], strategy)) =>
                   UNCHANGED <<analysisRegistry, pending>>]_vars

\* C38: registerTemplate, registerResolved, registerPayload and
\* registerAnalysis are key-local, and registering a value whose JSON text is
\* that of the value stored under the key (the same members, added in the same
\* order) leaves the registry as it is and queues no render.
C38_IdempotentOnJsonEquality ==
    /\ [](/\ RegistrationsKeyLocal
          /\ \A nodeId \in {"loader", "template"} : \A template \in OfferedTemplates :
                (nodeId \in DOMAIN templateRegistry
                 /\ JsonEqual(templateRegistry[nodeId], template)) =>
                   registerTemplate(templateRegistry, nodeId, template) = templateRegistry
          /\ \A i \in Indices : \A context \in NodeContexts(0) :
                (HasEntry(resolvedRegistry, "analyst", SourceOut(i))
                 /\ JsonEqual(resolvedRegistry["analyst"][SourceOut(i)], context)) =>
                   registerResolved(resolvedRegistry, "analyst", SourceOut(i), context)
                      = resolvedRegistry
          /\ \A nodeId \in StoreNodeIds : \A handleId \in StoreHandleIds :
                \A payload \in OfferedPayloads :
                   (HasEntry(payloadRegistry, nodeId, handleId)
                    /\ JsonEqual(payloadRegistry[nodeId][handleId], payload)) =>
                      registerPayload(payloadRegistry, nodeId, handleId, payload)
                         = payloadRegistry
          /\ \A handleId \in AnalysisHandleIds : \A strategy \in AnalysisStrategies :
                (HasEntry(analysisRegistry, "analyst", handleId)
                 /\ JsonEqual(analysisRegistry["analyst"][handleId], strategy)) =>
                   registerAnalysis(analysisRegistry, "analyst", handleId, strategy)
                      = analysisRegistry)
    /\ [][/\ \A template \in LoaderTemplates :
                (/\ RegisterTemplate("loader", template)
                 /\ "loader" \in DOMAIN templateRegistry
                 /\ JsonEqual(templateRegistry["loader"], template)) =>
                   UNCHANGED <<templateRegistry, pending>>
          /\ \A i \in Indices : \A context \in NodeContexts(i) :
                (/\ RegisterResolved("analyst", SourceOut(i), context)
                 /\ HasEntry(resolvedRegistry, "analyst", SourceOut(i))
                 /\ JsonEqual(resolvedRegistry["analyst"][SourceOut(i)], context)) =>
                   UNCHANGED <<resolvedRegistry, pending>>
          /\ \A handleId \in AnalysisHandleIds : \A strategy \in AnalysisStrategies :
                (/\ RegisterAnalysis("analyst", handleId, strategy)
                 /\ HasEntry(analysisRegistry, "analyst", handleId)
                 /\ JsonEqual(analysisRegistry["analyst"][handleId], strategy)) =>
                   UNCHANGED <<analysisRegistry, pending>>]_vars

\* The analyst's strategy is stored with suggestedScale as its first member
\* (the same strategy with method first was there before or is offered
\* next), beside the context of the second instance; every registry holds
\* an entry and no render is queued, so each registration can be repeated.
C38_Witness ==
    /\ pending = 0
    /\ HasEntry(analysisRegistry, "analyst", SourceOut(0))
    /\ analysisRegistry["analyst"][SourceOut(0)].keys = <<"suggestedScale", "method">>
    /\ HasEntry(resolvedRegistry, "analyst", SourceOut(0))
    /\ HasEntry(resolvedRegistry, "analyst", SourceOut(1))
    /\ "loader" \in DOMAIN templateRegistry
    /\ RegisteredFor(0) # {} /\ RegisteredFor(1) # {}

====
